---- MODULE Spec2Model ----
(***************************************************************************)
(* Model of the analytics core of django-BloodBank:                        *)
(*   - ReportService.get_or_generate_report, the report cache and its      *)
(*     generation lock (src/analytics/services.py, 183-220, 980-1014);     *)
(*   - AnalyticsService.generate_daily_stats, the daily rollups            *)
(*     (src/analytics/services.py, 20-180), sequential and concurrent;     *)
(*   - GenerateReportView.post and ReportParametersSerializer              *)
(*     (src/analytics/views.py 90-150, src/analytics/serializers.py 23-55);*)
(*   - the report generators of ReportService, their trend classification  *)
(*     and their rates (src/analytics/services.py, 222-904).               *)
(* Time is counted in seconds for the report cache and in calendar days    *)
(* for the daily rollups.                                                  *)
(***************************************************************************)
EXTENDS Integers, Sequences, FiniteSets, TLC

VARIABLES
    now,          \* the wall clock read by timezone.now(), in seconds
    ticks,        \* how often the clock has advanced (bounds the model)
    calls,        \* how many calls of get_or_generate_report have started
    lockStore,    \* django.core.cache: lock key -> expiry time of the key
    reportCache,  \* the ReportCache table, rows in insertion order
    genCount,     \* side-effect counter of the report generator
    pc,           \* per worker: position inside get_or_generate_report
    args,         \* per worker: report_type, parameters, force_refresh
    data,         \* per worker: the local variable `data`
    result,       \* per worker: how its call ends (value or exception)
    returned,     \* per worker: the payload handed back to the caller
    overlapped,   \* history: workers whose call for the same key overlapped this call
    sawEmpty,     \* history: the lookup found no row at all for the key
    stored,       \* history: this call created a ReportCache row
    retried,      \* history: this call repeats one that met a held lock
    today,        \* timezone.now().date(), in days
    donations,    \* the Donation table
    requests,     \* the BloodRequest table
    inventory,    \* the Inventory table: blood_group -> [quantity, is_low]
    transactions, \* the InventoryTransaction table
    donationStats,\* the DailyDonationStats table
    requestStats, \* the DailyRequestStats table
    snapshots,    \* the DailyInventorySnapshot table
    runs,         \* how many calls of generate_daily_stats were made
    srcVersion,   \* history: how many times the source records were changed
    lastRun,      \* history: date and source version of the latest call
    rpc,          \* per runner: position inside a concurrent generate_daily_stats
    rdate,        \* the date the concurrent runs were called with (0: none yet)
    pending,      \* per runner: the defaults computed for the next upsert
    vpc,          \* position of the request inside GenerateReportView.post
    vreq,         \* request.data of the request being handled
    vresp,        \* the Response the view returned
    posts,        \* how many requests were posted
    gcall,        \* the arguments of the latest _generate_report call
    gout,         \* how that call ended: exception, or the payload's shape
    gpayload,     \* the values of the payload the claims speak about
    chart,        \* the chart generate_inventory_forecast_chart returned
    opc,          \* per handler: position inside a donations view
    oper,         \* per handler: the operation and its in-memory instances
    opcount,      \* how many requests the donations views have received
    series,       \* a series handed to the trend classification
    label,        \* the labels the classification gave it
    ratio,        \* numerator and denominator handed to the rate computations
    rates         \* the rates computed from them

cacheVars == <<now, ticks, calls, lockStore, reportCache, genCount, pc, args,
               data, result, returned, overlapped, sawEmpty, stored, retried>>

sourceVars == <<donations, requests, inventory, transactions>>

summaryVars == <<donationStats, requestStats, snapshots>>

statsVars == <<today, sourceVars, summaryVars, runs, srcVersion, lastRun>>

runnerVars == <<rpc, rdate, pending>>

viewVars == <<vpc, vreq, vresp, posts>>

genVars == <<gcall, gout, gpayload>>

trendVars == <<series, label>>

rateVars == <<ratio, rates>>

pureVars == <<trendVars, rateVars>>

chartVars == <<chart>>

opVars == <<opc, oper, opcount>>

deskVars == <<chartVars, opVars>>

auxVars == <<runnerVars, viewVars, genVars, pureVars, deskVars>>

vars == <<cacheVars, statsVars, auxVars>>

(***************************************************************************)
(* Bounds of the model.                                                    *)
(***************************************************************************)
MaxCalls == 2
MaxTicks == 1

\* Two request-handling threads serve the calls of get_or_generate_report.
Callers == {1, 2}

(***************************************************************************)
(* Program constants.                                                      *)
(***************************************************************************)
LOCK_TIMEOUT == 300

CACHE_DURATION == 24 * 3600

CACHE_PREFIX == "report_cache_"

\* The clock advances by the lock timeout or by the cache duration.
TickSteps == {LOCK_TIMEOUT, CACHE_DURATION}

(***************************************************************************)
(* Inputs of get_or_generate_report.                                       *)
(***************************************************************************)
ReportTypes == {"donation_summary", "request_summary"}

\* A native date object and its isoformat() string are different values.
NativeDate(d) == <<"date", d>>

IsoFormat(v) == <<"iso", v[2]>>

ParamSet == {[start_date |-> NativeDate(1), end_date |-> NativeDate(1)],
             [start_date |-> NativeDate(1), end_date |-> NativeDate(2)]}

NoArgs == [report_type |-> "none",
           parameters |-> [start_date |-> NativeDate(0), end_date |-> NativeDate(0)],
           force_refresh |-> FALSE]

\* A payload: which generator run produced it, and whether it is as the generator
\* built it ("raw") or as _process_dates_in_data rewrote it ("processed").
NoData == [gen |-> 0, form |-> "none"]

(***************************************************************************)
(* Pure helpers of ReportService.                                          *)
(***************************************************************************)
\* processed_params: start_date and end_date replaced by their isoformat().
ProcessParams(parameters) ==
    [parameters EXCEPT !.start_date = IsoFormat(parameters.start_date),
                       !.end_date = IsoFormat(parameters.end_date)]

\* _get_cache_key: prefix, report type and the sorted "k:v" pairs.
GetCacheKey(report_type, processed) ==
    <<CACHE_PREFIX, report_type,
      <<"end_date", processed.end_date>>, <<"start_date", processed.start_date>>>>

LockName(cache_key) == <<cache_key, "_lock">>

\* _process_dates_in_data: datetimes inside the payload are replaced by strings.
ProcessDatesInData(d) == [d EXCEPT !.form = "processed"]

LockKey(p) == LockName(GetCacheKey(args[p].report_type, ProcessParams(args[p].parameters)))

(***************************************************************************)
(* django.core.cache as used for the generation lock.                      *)
(***************************************************************************)
\* A key is live while its expiry time has not been reached.
CacheHas(store, key, t) == key \in DOMAIN store /\ store[key] > t

\* cache.add(key, True, timeout): sets the key only when it is not live.
CacheAdd(store, key, t, timeout) ==
    IF CacheHas(store, key, t)
    THEN store
    ELSE [k \in DOMAIN store \cup {key} |-> IF k = key THEN t + timeout ELSE store[k]]

\* cache.delete(key): removes the key, whoever set it.
CacheDelete(store, key) == [k \in DOMAIN store \ {key} |-> store[k]]

(***************************************************************************)
(* The ReportCache table.                                                  *)
(***************************************************************************)
\* The filter without the expires_at__gt condition.
CacheFilterNoExpiry(rows, report_type, processed, t) ==
    {i \in 1..Len(rows) :
        /\ rows[i].report_type = report_type
        /\ rows[i].parameters = processed
        /\ rows[i].is_generating = FALSE}

\* ReportCache.objects.filter(report_type=, parameters=, expires_at__gt=now,
\*                            is_generating=False)
CacheFilter(rows, report_type, processed, t) ==
    {i \in 1..Len(rows) :
        /\ rows[i].report_type = report_type
        /\ rows[i].parameters = processed
        /\ rows[i].expires_at > t
        /\ rows[i].is_generating = FALSE}

\* Meta.ordering = ['-created_at'] and .first(): a row with the greatest created_at.
FirstRows(rows, S) == {i \in S : \A j \in S : rows[j].created_at <= rows[i].created_at}

\* A row created with the lock's timeout as its lifetime.
NewRowLockLifetime(report_type, parameters, d, t) ==
    [report_type |-> report_type,
     parameters |-> ProcessParams(parameters),
     data |-> ProcessDatesInData(d),
     created_at |-> t,
     expires_at |-> t + LOCK_TIMEOUT,
     is_generating |-> FALSE]

\* ReportCache.objects.create(...) in _cache_report.
NewRow(report_type, parameters, d, t) ==
    [report_type |-> report_type,
     parameters |-> ProcessParams(parameters),
     data |-> ProcessDatesInData(d),
     created_at |-> t,
     expires_at |-> t + CACHE_DURATION,
     is_generating |-> FALSE]

Active(p) == pc[p] \in {"lookup", "acquire", "generate", "cache", "release"}

(***************************************************************************)
(* get_or_generate_report, one action per step that touches shared state.  *)
(***************************************************************************)
SameKey(a, b) == a.report_type = b.report_type /\ a.parameters = b.parameters

\* Lines 188-199: a worker starts its next call (worker 1 serves the first
\* call). With force_refresh the lookup is skipped.
Enter(p, a) ==
    /\ pc[p] \in {"idle", "done"}
    /\ \A q \in Callers : q < p => pc[q] # "idle"
    /\ calls < MaxCalls
    /\ calls' = calls + 1
    /\ args' = [args EXCEPT ![p] = a]
    /\ pc' = [pc EXCEPT ![p] = IF a.force_refresh THEN "acquire" ELSE "lookup"]
    /\ data' = [data EXCEPT ![p] = NoData]
    /\ result' = [result EXCEPT ![p] = "none"]
    /\ returned' = [returned EXCEPT ![p] = NoData]
    /\ stored' = [stored EXCEPT ![p] = FALSE]
    /\ retried' = [retried EXCEPT ![p] = FALSE]
    /\ sawEmpty' = [sawEmpty EXCEPT ![p] = FALSE]
    /\ overlapped' = [q \in Callers |->
                        IF q = p THEN {r \in Callers \ {p} : Active(r) /\ SameKey(args[r], a)}
                        ELSE IF Active(q) /\ SameKey(args[q], a) THEN overlapped[q] \cup {p}
                        ELSE overlapped[q]]
    /\ UNCHANGED <<now, ticks, lockStore, reportCache, genCount>>
    /\ UNCHANGED <<statsVars, auxVars>>

\* The lookup comparing the stored parameters with the unconverted ones.
LookupNativeParams(p) ==
    /\ pc[p] = "lookup"
    /\ LET hits == CacheFilter(reportCache, args[p].report_type, args[p].parameters, now)
       IN /\ sawEmpty' = [sawEmpty EXCEPT ![p] =
                   ~\E i \in 1..Len(reportCache) :
                       /\ reportCache[i].report_type = args[p].report_type
                       /\ reportCache[i].parameters = ProcessParams(args[p].parameters)]
          /\ IF hits # {}
             THEN \E i \in FirstRows(reportCache, hits) :
                     /\ pc' = [pc EXCEPT ![p] = "done"]
                     /\ result' = [result EXCEPT ![p] = "hit"]
                     /\ returned' = [returned EXCEPT ![p] = reportCache[i].data]
             ELSE /\ pc' = [pc EXCEPT ![p] = "acquire"]
                  /\ UNCHANGED <<result, returned>>
    /\ UNCHANGED <<now, ticks, calls, lockStore, reportCache, genCount, args, data,
                   overlapped, stored, retried>>
    /\ UNCHANGED <<statsVars, auxVars>>

\* Lines 200-208: the cache lookup; a hit returns the row's data.
Lookup(p) ==
    /\ pc[p] = "lookup"
    /\ LET pp == ProcessParams(args[p].parameters)
           hits == CacheFilter(reportCache, args[p].report_type, pp, now)
       IN /\ sawEmpty' = [sawEmpty EXCEPT ![p] =
                   ~\E i \in 1..Len(reportCache) :
                       /\ reportCache[i].report_type = args[p].report_type
                       /\ reportCache[i].parameters = pp]
          /\ IF hits # {}
             THEN \E i \in FirstRows(reportCache, hits) :
                     /\ pc' = [pc EXCEPT ![p] = "done"]
                     /\ result' = [result EXCEPT ![p] = "hit"]
                     /\ returned' = [returned EXCEPT ![p] = reportCache[i].data]
             ELSE /\ pc' = [pc EXCEPT ![p] = "acquire"]
                  /\ UNCHANGED <<result, returned>>
    /\ UNCHANGED <<now, ticks, calls, lockStore, reportCache, genCount, args, data,
                   overlapped, stored, retried>>
    /\ UNCHANGED <<statsVars, auxVars>>

\* Lines 211-213: cache.add succeeds, the call goes on to the generator.
AcquireOk(p) ==
    /\ pc[p] = "acquire"
    /\ ~CacheHas(lockStore, LockKey(p), now)
    /\ lockStore' = CacheAdd(lockStore, LockKey(p), now, LOCK_TIMEOUT)
    /\ pc' = [pc EXCEPT ![p] = "generate"]
    /\ UNCHANGED <<now, ticks, calls, reportCache, genCount, args, data, result,
                   returned, overlapped, sawEmpty, stored, retried>>
    /\ UNCHANGED <<statsVars, auxVars>>

\* The failed acquisition raising inside the try block, so that finally runs.
AcquireFailInsideTry(p) ==
    /\ pc[p] = "acquire"
    /\ CacheHas(lockStore, LockKey(p), now)
    /\ lockStore' = CacheAdd(lockStore, LockKey(p), now, LOCK_TIMEOUT)
    /\ pc' = [pc EXCEPT ![p] = "release"]
    /\ result' = [result EXCEPT ![p] = "conflict"]
    /\ UNCHANGED <<now, ticks, calls, reportCache, genCount, args, data,
                   returned, overlapped, sawEmpty, stored, retried>>
    /\ UNCHANGED <<statsVars, auxVars>>

\* Lines 211-213: cache.add fails, ValueError is raised before the try block.
AcquireFail(p) ==
    /\ pc[p] = "acquire"
    /\ CacheHas(lockStore, LockKey(p), now)
    /\ lockStore' = CacheAdd(lockStore, LockKey(p), now, LOCK_TIMEOUT)
    /\ pc' = [pc EXCEPT ![p] = "done"]
    /\ result' = [result EXCEPT ![p] = "conflict"]
    /\ UNCHANGED <<now, ticks, calls, reportCache, genCount, args, data,
                   returned, overlapped, sawEmpty, stored, retried>>
    /\ UNCHANGED <<statsVars, auxVars>>

\* Line 216: the generator returns a payload.
GenerateOk(p) ==
    /\ pc[p] = "generate"
    /\ genCount' = genCount + 1
    /\ data' = [data EXCEPT ![p] = [gen |-> genCount + 1, form |-> "raw"]]
    /\ pc' = [pc EXCEPT ![p] = "cache"]
    /\ UNCHANGED <<now, ticks, calls, lockStore, reportCache, args, result,
                   returned, overlapped, sawEmpty, stored, retried>>
    /\ UNCHANGED <<statsVars, auxVars>>

\* The generator's exception swallowed, the call going on to _cache_report.
GenerateRaiseSwallowed(p) ==
    /\ pc[p] = "generate"
    /\ genCount' = genCount + 1
    /\ result' = [result EXCEPT ![p] = "gen_error"]
    /\ pc' = [pc EXCEPT ![p] = "cache"]
    /\ UNCHANGED <<now, ticks, calls, lockStore, reportCache, args, data,
                   returned, overlapped, sawEmpty, stored, retried>>
    /\ UNCHANGED <<statsVars, auxVars>>

\* Line 216: the generator raises; control passes to the finally block.
GenerateRaise(p) ==
    /\ pc[p] = "generate"
    /\ genCount' = genCount + 1
    /\ result' = [result EXCEPT ![p] = "gen_error"]
    /\ pc' = [pc EXCEPT ![p] = "release"]
    /\ UNCHANGED <<now, ticks, calls, lockStore, reportCache, args, data,
                   returned, overlapped, sawEmpty, stored, retried>>
    /\ UNCHANGED <<statsVars, auxVars>>

\* Lines 217-218: _cache_report creates the row, `return data` is pending.
CacheReportOk(p) ==
    /\ pc[p] = "cache"
    /\ reportCache' = Append(reportCache,
                             NewRow(args[p].report_type, args[p].parameters, data[p], now))
    /\ stored' = [stored EXCEPT ![p] = TRUE]
    /\ result' = [result EXCEPT ![p] = "ok"]
    /\ returned' = [returned EXCEPT ![p] = data[p]]
    /\ pc' = [pc EXCEPT ![p] = "release"]
    /\ UNCHANGED <<now, ticks, calls, lockStore, genCount, args, data,
                   overlapped, sawEmpty, retried>>
    /\ UNCHANGED <<statsVars, auxVars>>

\* Line 217: _cache_report raises (the payload cannot be stored).
CacheReportRaise(p) ==
    /\ pc[p] = "cache"
    /\ result' = [result EXCEPT ![p] = "cache_error"]
    /\ pc' = [pc EXCEPT ![p] = "release"]
    /\ UNCHANGED <<now, ticks, calls, lockStore, reportCache, genCount, args, data,
                   returned, overlapped, sawEmpty, stored, retried>>
    /\ UNCHANGED <<statsVars, auxVars>>

\* The lock released after a successful return only, not in a finally block.
ReleaseOnSuccessOnly(p) ==
    /\ pc[p] = "release"
    /\ lockStore' = IF result[p] = "ok" THEN CacheDelete(lockStore, LockKey(p)) ELSE lockStore
    /\ pc' = [pc EXCEPT ![p] = "done"]
    /\ data' = [data EXCEPT ![p] = NoData]
    /\ UNCHANGED <<now, ticks, calls, reportCache, genCount, args, result,
                   returned, overlapped, sawEmpty, stored, retried>>
    /\ UNCHANGED <<statsVars, auxVars>>

\* Lines 219-220: finally: _release_generation_lock, then the call exits.
Release(p) ==
    /\ pc[p] = "release"
    /\ lockStore' = CacheDelete(lockStore, LockKey(p))
    /\ pc' = [pc EXCEPT ![p] = "done"]
    /\ data' = [data EXCEPT ![p] = NoData]
    /\ UNCHANGED <<now, ticks, calls, reportCache, genCount, args, result,
                   returned, overlapped, sawEmpty, stored, retried>>
    /\ UNCHANGED <<statsVars, auxVars>>

\* The wall clock advances.
Tick ==
    /\ ticks < MaxTicks
    /\ ticks' = ticks + 1
    /\ \E d \in TickSteps : now' = now + d
    /\ UNCHANGED <<calls, lockStore, reportCache, genCount, pc, args, data, result,
                   returned, overlapped, sawEmpty, stored, retried>>
    /\ UNCHANGED <<statsVars, auxVars>>

\* The repeated call going to the lock without looking the cache up.
RetryWithoutLookup(p) ==
    /\ pc[p] = "done"
    /\ result[p] = "conflict"
    /\ retried' = [retried EXCEPT ![p] = TRUE]
    /\ pc' = [pc EXCEPT ![p] = "acquire"]
    /\ data' = [data EXCEPT ![p] = NoData]
    /\ result' = [result EXCEPT ![p] = "none"]
    /\ returned' = [returned EXCEPT ![p] = NoData]
    /\ stored' = [stored EXCEPT ![p] = FALSE]
    /\ sawEmpty' = [sawEmpty EXCEPT ![p] = FALSE]
    /\ overlapped' = [q \in Callers |->
                        IF q = p
                        THEN {r \in Callers \ {p} : Active(r) /\ SameKey(args[r], args[p])}
                        ELSE IF Active(q) /\ SameKey(args[q], args[p])
                        THEN overlapped[q] \cup {p}
                        ELSE overlapped[q]]
    /\ UNCHANGED <<now, ticks, calls, lockStore, reportCache, genCount, args>>
    /\ UNCHANGED <<statsVars, auxVars>>

\* The caller whose call failed with 'Report generation already in progress'
\* (line 213, the 400 response of views.py 143-147) makes the same call
\* again, lines 188-199.
Retry(p) ==
    /\ pc[p] = "done"
    /\ result[p] = "conflict"
    /\ retried' = [retried EXCEPT ![p] = TRUE]
    /\ pc' = [pc EXCEPT ![p] = IF args[p].force_refresh THEN "acquire" ELSE "lookup"]
    /\ data' = [data EXCEPT ![p] = NoData]
    /\ result' = [result EXCEPT ![p] = "none"]
    /\ returned' = [returned EXCEPT ![p] = NoData]
    /\ stored' = [stored EXCEPT ![p] = FALSE]
    /\ sawEmpty' = [sawEmpty EXCEPT ![p] = FALSE]
    /\ overlapped' = [q \in Callers |->
                        IF q = p
                        THEN {r \in Callers \ {p} : Active(r) /\ SameKey(args[r], args[p])}
                        ELSE IF Active(q) /\ SameKey(args[q], args[p])
                        THEN overlapped[q] \cup {p}
                        ELSE overlapped[q]]
    /\ UNCHANGED <<now, ticks, calls, lockStore, reportCache, genCount, args>>
    /\ UNCHANGED <<statsVars, auxVars>>

\* The next step of a call whose generator and _cache_report do not raise.
CallStep(p) ==
    \/ Lookup(p)
    \/ AcquireOk(p)
    \/ AcquireFail(p)
    \/ GenerateOk(p)
    \/ CacheReportOk(p)
    \/ Release(p)

CallArgs == {a \in [report_type : ReportTypes, parameters : ParamSet, force_refresh : BOOLEAN] :
               a.report_type = "donation_summary" \/ a.parameters.end_date = NativeDate(1)}

(***************************************************************************)
(* The source tables (src/donations/models.py) and the daily rollups       *)
(* (AnalyticsService, src/analytics/services.py 20-180).                   *)
(***************************************************************************)
MaxRecords == 2
MaxDay == 3
MaxRuns == 2

\* The smaller bounds of the single-record rollup runs (SpecRollup).
MaxRollupRecords == 1
MaxRollupDay == 2
MaxRollups == 2

\* BLOOD_GROUP_CHOICES, in the order the code iterates them.
BLOOD_GROUP_CHOICES == <<"A+", "A-", "B+", "B-", "AB+", "AB-", "O+", "O-">>

BloodGroups == {BLOOD_GROUP_CHOICES[i] : i \in 1..Len(BLOOD_GROUP_CHOICES)}

\* The blood groups and quantities the modelled requests use.
InputGroups == {"A+", "O-"}

DonationQuantities == {1}

RequestQuantities == {1}

LOW_STOCK == 5

\* QuerySet.count() of the rows satisfying a filter.
Count(rows, Keep(_)) == Cardinality({i \in 1..Len(rows) : Keep(rows[i])})

\* aggregate(Sum('quantity'))['quantity__sum'] or 0
RECURSIVE SumQuantity(_)
SumQuantity(rows) ==
    IF rows = <<>> THEN 0 ELSE Head(rows).quantity + SumQuantity(Tail(rows))

\* An upsert that does not look at the date of the rows it rewrites.
UpdateOrCreateAnyDate(table, date, defaults) ==
    IF table # <<>>
    THEN [i \in 1..Len(table) |-> defaults]
    ELSE Append(table, defaults)

\* objects.update_or_create(date=date, defaults=...): the row of that date is
\* rewritten, or a row is created when there is none.
UpdateOrCreate(table, date, defaults) ==
    IF \E i \in 1..Len(table) : table[i].date = date
    THEN [i \in 1..Len(table) |-> IF table[i].date = date THEN defaults ELSE table[i]]
    ELSE Append(table, defaults)

\* Inventory.objects.get_or_create(blood_group=...)[0], then quantity += delta,
\* save() and check_low_stock().
AdjustInventory(inv, g, delta) ==
    LET old == IF g \in DOMAIN inv THEN inv[g].quantity ELSE 0
        new == old + delta
    IN [k \in DOMAIN inv \cup {g} |->
           IF k = g THEN [quantity |-> new, is_low |-> new < LOW_STOCK] ELSE inv[k]]

\* A donor files a donation request (status pending, request_date now).
CreateDonation(g, q) ==
    /\ Len(donations) + Len(requests) < MaxRecords
    /\ donations' = Append(donations,
           [blood_group |-> g, quantity |-> q, status |-> "pending", request_date |-> today])
    /\ srcVersion' = srcVersion + 1
    /\ UNCHANGED <<requests, inventory, transactions, today, summaryVars, runs, lastRun>>

\* Donation.approve
Approve(i) ==
    /\ donations[i].status = "pending"
    /\ inventory' = AdjustInventory(inventory, donations[i].blood_group, donations[i].quantity)
    /\ donations' = [donations EXCEPT ![i].status = "approved"]
    /\ transactions' = Append(transactions,
           [inventory |-> donations[i].blood_group, transaction_type |-> "donation",
            quantity |-> donations[i].quantity, blood_group |-> donations[i].blood_group,
            timestamp |-> today])
    /\ srcVersion' = srcVersion + 1
    /\ UNCHANGED <<requests, today, summaryVars, runs, lastRun>>

\* Donation.reject
Reject(i) ==
    /\ donations[i].status = "pending"
    /\ donations' = [donations EXCEPT ![i].status = "rejected"]
    /\ srcVersion' = srcVersion + 1
    /\ UNCHANGED <<requests, inventory, transactions, today, summaryVars, runs, lastRun>>

\* An admin files a blood request (status pending, request_date now).
CreateRequest(g, q, u) ==
    /\ Len(donations) + Len(requests) < MaxRecords
    /\ requests' = Append(requests,
           [blood_group |-> g, quantity |-> q, urgency |-> u, status |-> "pending",
            request_date |-> today])
    /\ srcVersion' = srcVersion + 1
    /\ UNCHANGED <<donations, inventory, transactions, today, summaryVars, runs, lastRun>>

\* BloodRequest.fulfill, when it does not raise.
Fulfill(i) ==
    /\ requests[i].status = "pending"
    /\ requests[i].blood_group \in DOMAIN inventory
    /\ inventory[requests[i].blood_group].quantity >= requests[i].quantity
    /\ inventory' = AdjustInventory(inventory, requests[i].blood_group, -requests[i].quantity)
    /\ requests' = [requests EXCEPT ![i].status = "fulfilled"]
    /\ transactions' = Append(transactions,
           [inventory |-> requests[i].blood_group, transaction_type |-> "request",
            quantity |-> -requests[i].quantity, blood_group |-> requests[i].blood_group,
            timestamp |-> today])
    /\ srcVersion' = srcVersion + 1
    /\ UNCHANGED <<donations, today, summaryVars, runs, lastRun>>

\* BloodRequest.deny
Deny(i) ==
    /\ requests[i].status = "pending"
    /\ requests' = [requests EXCEPT ![i].status = "denied"]
    /\ srcVersion' = srcVersion + 1
    /\ UNCHANGED <<donations, inventory, transactions, today, summaryVars, runs, lastRun>>

\* The donation rollup with the per-type successful count not restricted to
\* the type.
DonationStatsForUnrestricted(date) ==
    LET OnDate(d) == d.request_date = date
        Ok(d) == OnDate(d) /\ d.status = "approved"
        Rej(d) == OnDate(d) /\ d.status = "rejected"
    IN [date |-> date,
        total_donations |-> Count(donations, OnDate),
        successful_donations |-> Count(donations, Ok),
        rejected_donations |-> Count(donations, Rej),
        blood_type_breakdown |-> [g \in BloodGroups |->
            LET InG(d) == OnDate(d) /\ d.blood_group = g
                RejG(d) == Rej(d) /\ d.blood_group = g
            IN [total |-> Count(donations, InG),
                successful |-> Count(donations, Ok),
                rejected |-> Count(donations, RejG)]]]

\* _generate_donation_stats: the counts and the breakdown for a date.
DonationStatsFor(date) ==
    LET OnDate(d) == d.request_date = date
        Ok(d) == OnDate(d) /\ d.status = "approved"
        Rej(d) == OnDate(d) /\ d.status = "rejected"
    IN [date |-> date,
        total_donations |-> Count(donations, OnDate),
        successful_donations |-> Count(donations, Ok),
        rejected_donations |-> Count(donations, Rej),
        blood_type_breakdown |-> [g \in BloodGroups |->
            LET InG(d) == OnDate(d) /\ d.blood_group = g
                OkG(d) == Ok(d) /\ d.blood_group = g
                RejG(d) == Rej(d) /\ d.blood_group = g
            IN [total |-> Count(donations, InG),
                successful |-> Count(donations, OkG),
                rejected |-> Count(donations, RejG)]]]

\* _generate_request_stats: the counts and the two breakdowns for a date.
RequestStatsFor(date) ==
    LET OnDate(r) == r.request_date = date
        Ful(r) == OnDate(r) /\ r.status = "fulfilled"
        Pen(r) == OnDate(r) /\ r.status = "pending"
        Can(r) == OnDate(r) /\ r.status = "cancelled"
        Urg(r) == OnDate(r) /\ r.urgency = TRUE
        Nor(r) == OnDate(r) /\ r.urgency = FALSE
    IN [date |-> date,
        total_requests |-> Count(requests, OnDate),
        fulfilled_requests |-> Count(requests, Ful),
        pending_requests |-> Count(requests, Pen),
        cancelled_requests |-> Count(requests, Can),
        blood_type_breakdown |-> [g \in BloodGroups |->
            LET InG(r) == OnDate(r) /\ r.blood_group = g
                FulG(r) == Ful(r) /\ r.blood_group = g
                PenG(r) == Pen(r) /\ r.blood_group = g
                CanG(r) == Can(r) /\ r.blood_group = g
            IN [total |-> Count(requests, InG),
                fulfilled |-> Count(requests, FulG),
                pending |-> Count(requests, PenG),
                cancelled |-> Count(requests, CanG)]],
        urgency_breakdown |-> [urgent |-> Count(requests, Urg),
                               normal |-> Count(requests, Nor)]]

\* The transactions of an inventory row stamped with a date, summed.
RecentTransactions(g, day) ==
    SumQuantity(SelectSeq(transactions, LAMBDA t : t.inventory = g /\ t.timestamp = day))

\* _generate_inventory_snapshot: levels, low-stock levels and the net
\* depletion; the transactions are those of the current date (line 150).
InventorySnapshotFor(date, current) ==
    [date |-> date,
     inventory_levels |-> [g \in DOMAIN inventory |-> inventory[g].quantity],
     expiring_soon |-> [g \in {k \in DOMAIN inventory : inventory[k].is_low} |->
                           inventory[g].quantity],
     expired_today |-> [g \in {k \in DOMAIN inventory : RecentTransactions(k, current) < 0} |->
                           -RecentTransactions(g, current)]]

RowsFor(table, date) == SelectSeq(table, LAMBDA r : r.date = date)

NoRun == [date |-> 0, version |-> 0]

\* generate_daily_stats(date): the three rollups, one after the other.
GenerateDailyStats(date) ==
    /\ runs < MaxRuns
    /\ runs' = runs + 1
    /\ donationStats' = UpdateOrCreate(donationStats, date, DonationStatsFor(date))
    /\ requestStats' = UpdateOrCreate(requestStats, date, RequestStatsFor(date))
    /\ snapshots' = UpdateOrCreate(snapshots, date, InventorySnapshotFor(date, today))
    /\ lastRun' = [date |-> date, version |-> srcVersion]
    /\ UNCHANGED <<today, sourceVars, srcVersion>>

\* Midnight passes.
NextDay ==
    /\ today < MaxDay
    /\ today' = today + 1
    /\ UNCHANGED <<sourceVars, summaryVars, runs, srcVersion, lastRun>>

(***************************************************************************)
(* Concurrent runs of generate_daily_stats for one date (two periodic jobs *)
(* or a job and a manual call). Each of the three generators reads the     *)
(* source tables and then upserts its row.                                 *)
(***************************************************************************)
Runners == {1, 2}

NoDefaults == [date |-> 0]

\* generate_daily_stats(date) is entered; every run is for the same date.
StartRun(p, d) ==
    /\ rpc[p] = "idle"
    /\ \A q \in Runners : q < p => rpc[q] # "idle"
    /\ rdate \in {0, d}
    /\ rdate' = d
    /\ rpc' = [rpc EXCEPT ![p] = "donation"]
    /\ UNCHANGED <<pending, statsVars>>

\* _generate_donation_stats, lines 72-87: the counts are read.
ComputeDonation(p) ==
    /\ rpc[p] = "donation"
    /\ pending' = [pending EXCEPT ![p] = DonationStatsFor(rdate)]
    /\ rpc' = [rpc EXCEPT ![p] = "donation_save"]
    /\ UNCHANGED <<rdate, statsVars>>

\* _generate_donation_stats, lines 89-98: update_or_create. The date column
\* is unique: a create that loses the race fails with IntegrityError, and
\* update_or_create then fetches the winner's row and updates it.
SaveDonation(p) ==
    /\ rpc[p] = "donation_save"
    /\ donationStats' = UpdateOrCreate(donationStats, rdate, pending[p])
    /\ rpc' = [rpc EXCEPT ![p] = "request"]
    /\ pending' = [pending EXCEPT ![p] = NoDefaults]
    /\ UNCHANGED <<rdate, today, sourceVars, requestStats, snapshots, runs, srcVersion, lastRun>>

\* _generate_request_stats, lines 102-128: the counts are read.
ComputeRequest(p) ==
    /\ rpc[p] = "request"
    /\ pending' = [pending EXCEPT ![p] = RequestStatsFor(rdate)]
    /\ rpc' = [rpc EXCEPT ![p] = "request_save"]
    /\ UNCHANGED <<rdate, statsVars>>

\* _generate_request_stats, lines 130-139: update_or_create.
SaveRequest(p) ==
    /\ rpc[p] = "request_save"
    /\ requestStats' = UpdateOrCreate(requestStats, rdate, pending[p])
    /\ rpc' = [rpc EXCEPT ![p] = "snapshot"]
    /\ pending' = [pending EXCEPT ![p] = NoDefaults]
    /\ UNCHANGED <<rdate, today, sourceVars, donationStats, snapshots, runs, srcVersion, lastRun>>

\* _generate_inventory_snapshot, lines 144-170: the inventory and the
\* transactions of the current date are read.
ComputeSnapshot(p) ==
    /\ rpc[p] = "snapshot"
    /\ pending' = [pending EXCEPT ![p] = InventorySnapshotFor(rdate, today)]
    /\ rpc' = [rpc EXCEPT ![p] = "snapshot_save"]
    /\ UNCHANGED <<rdate, statsVars>>

\* _generate_inventory_snapshot, lines 173-180: update_or_create.
SaveSnapshot(p) ==
    /\ rpc[p] = "snapshot_save"
    /\ snapshots' = UpdateOrCreate(snapshots, rdate, pending[p])
    /\ rpc' = [rpc EXCEPT ![p] = "done"]
    /\ pending' = [pending EXCEPT ![p] = NoDefaults]
    /\ UNCHANGED <<rdate, today, sourceVars, donationStats, requestStats, runs, srcVersion, lastRun>>

\* No run has started: the source records may still change.
NoRunStarted == \A p \in Runners : rpc[p] = "idle"

(***************************************************************************)
(* GenerateReportView.post (src/analytics/views.py 93-150) and             *)
(* ReportParametersSerializer (src/analytics/serializers.py 23-55).        *)
(***************************************************************************)
MaxPosts == 1

\* The choices of the serializer's report_type field.
SERIALIZER_REPORT_TYPES ==
    {"donation_summary", "request_summary", "inventory_summary",
     "donation_trends", "request_trends", "inventory_forecast"}

\* The choices of the serializer's format field.
SERIALIZER_FORMATS == {"json", "pdf", "excel"}

\* valid_report_types of the view, line 103.
VIEW_REPORT_TYPES == {"inventory", "donations", "requests", "donors"}

\* valid_formats of the view, line 112.
VIEW_FORMATS == {"json", "csv", "xlsx", "pdf"}

\* The longest date range validate() lets pass, in days.
MAX_RANGE_DAYS == 365

\* The first days and the lengths of the posted date ranges.
StartDays == {1, 2}

RangeDays == {-1, 0, 1, MAX_RANGE_DAYS - 1, MAX_RANGE_DAYS, MAX_RANGE_DAYS + 1}

\* request.data: the dates arrive as ISO strings.
PostedRequests ==
    {[report_type |-> t, format |-> f,
      start_date |-> IsoFormat(NativeDate(d)), end_date |-> IsoFormat(NativeDate(d + n))] :
        t \in SERIALIZER_REPORT_TYPES \cup {"donors"},
        f \in SERIALIZER_FORMATS \cup {"csv"},
        d \in StartDays, n \in RangeDays}

NoRequest == [report_type |-> "none", format |-> "none"]

NoResponse == [status |-> 0, error |-> "none"]

\* serializers.DateField: an ISO string becomes a date object.
ParseDate(v) == NativeDate(v[2])

\* The field validation of ReportParametersSerializer, lines 25-34.
FieldsValid(req) ==
    /\ req.report_type \in SERIALIZER_REPORT_TYPES
    /\ req.format \in SERIALIZER_FORMATS

\* ReportParametersSerializer.validate with the range compared by >=.
ValidateStrictRange(vdata) ==
    IF vdata.start_date[2] > vdata.end_date[2] THEN "End date must be after start date"
    ELSE IF vdata.end_date[2] - vdata.start_date[2] >= MAX_RANGE_DAYS
         THEN "Date range cannot exceed 365 days"
         ELSE "ok"

\* ReportParametersSerializer.validate, lines 45-55: "ok" or the message of
\* the ValidationError.
Validate(vdata) ==
    IF vdata.start_date[2] > vdata.end_date[2] THEN "End date must be after start date"
    ELSE IF vdata.end_date[2] - vdata.start_date[2] > MAX_RANGE_DAYS
         THEN "Date range cannot exceed 365 days"
         ELSE "ok"

\* serializer.validated_data: the fields converted to their internal values.
ValidatedData(req) ==
    [req EXCEPT !.start_date = ParseDate(req.start_date),
                !.end_date = ParseDate(req.end_date)]

\* A request arrives at the view.
Post(req) ==
    /\ vpc \in {"idle", "responded"}
    /\ posts < MaxPosts
    /\ posts' = posts + 1
    /\ vreq' = req
    /\ vresp' = NoResponse
    /\ vpc' = "is_valid"
    /\ UNCHANGED <<cacheVars, statsVars, runnerVars, genVars, pureVars, deskVars>>

\* Lines 95-100: serializer.is_valid(); a failure is answered with 400 and
\* serializer.errors.
SerializerIsValid ==
    /\ vpc = "is_valid"
    /\ IF ~FieldsValid(vreq)
       THEN /\ vresp' = [status |-> 400, error |-> "Invalid choice"]
            /\ vpc' = "responded"
            /\ vreq' = vreq
       ELSE IF Validate(ValidatedData(vreq)) # "ok"
            THEN /\ vresp' = [status |-> 400, error |-> Validate(ValidatedData(vreq))]
                 /\ vpc' = "responded"
                 /\ vreq' = vreq
            ELSE /\ vpc' = "view_checks"
                 /\ vreq' = ValidatedData(vreq)
                 /\ vresp' = vresp
    /\ UNCHANGED <<posts, cacheVars, statsVars, runnerVars, genVars, pureVars, deskVars>>

\* Lines 102-150: the view's own checks of report_type and format, then the
\* call of ReportService.get_or_generate_report (200 with the report, or 400
\* with the message of the exception it raised).
ViewChecks ==
    /\ vpc = "view_checks"
    /\ IF vreq.report_type \notin VIEW_REPORT_TYPES
       THEN vresp' = [status |-> 400, error |-> "Invalid report type"]
       ELSE IF vreq.format \notin VIEW_FORMATS
            THEN vresp' = [status |-> 400, error |-> "Invalid export format"]
            ELSE \/ vresp' = [status |-> 200, error |-> "none"]
                 \/ vresp' = [status |-> 400, error |-> "exception"]
    /\ vpc' = "responded"
    /\ UNCHANGED <<vreq, posts, cacheVars, statsVars, runnerVars, genVars, pureVars, deskVars>>

InitView ==
    /\ vpc = "idle"
    /\ vreq = NoRequest
    /\ vresp = NoResponse
    /\ posts = 0

(***************************************************************************)
(* ReportService._generate_report and the six generators                   *)
(* (src/analytics/services.py 222-904): which exception a call ends with,  *)
(* or which top-level keys the payload it returns has.                     *)
(***************************************************************************)
GROUP_BY_CHOICES == {"day", "week", "month"}

\* The parameters handed to _generate_report: validated dates, group_by, and
\* whether a blood_types filter was given.
GenParams ==
    {[start_date |-> NativeDate(a), end_date |-> NativeDate(b),
      group_by |-> g, blood_types |-> f] :
        a \in 1..MaxRollupDay, b \in 1..MaxRollupDay, g \in GROUP_BY_CHOICES,
        f \in {<<>>, <<"A+">>}}

\* The call returned a payload with these top-level keys.
Returned(keys, n) == [error |-> "none", keys |-> keys, rows |-> n]

\* The call ended with this exception.
Raised(exc, n) == [error |-> exc, keys |-> {}, rows |-> n]

\* Model.objects.filter(date__range=[start_date, end_date])
InRange(table, p) ==
    SelectSeq(table, LAMBDA r : p.start_date[2] <= r.date /\ r.date <= p.end_date[2])

\* df.resample(..., on='date').sum() over a frame that holds the JSON
\* breakdown columns: depending on the pandas release the columns that
\* cannot be summed are dropped or a TypeError is raised.
ResampleSumOutcomes == {"ok", "TypeError"}

\* np.polyfit(x, y, 1) over n points: a single point does not determine a
\* line; numpy then raises LinAlgError or yields a NaN slope.
PolyfitOutcomes(n) == IF n < 2 THEN {"ok", "LinAlgError"} ELSE {"ok"}

\* _generate_donation_summary, lines 778-857.
DonationSummaryOutcomes(p, n) ==
    LET keys == {"summary", "trends", "blood_type_breakdown"}
    IN IF n = 0 THEN {Returned(keys, n)}
       ELSE IF p.group_by = "day"
            \* line 842: the frame has an integer index, d.strftime fails
            THEN {Raised("AttributeError", n)}
            \* line 856: donations is a values() queryset, its items are dicts
            ELSE {Raised(IF o = "ok" THEN "AttributeError" ELSE o, n) : o \in ResampleSumOutcomes}

\* _generate_request_summary, lines 677-775.
RequestSummaryOutcomes(p, n) ==
    LET keys == {"summary", "trends", "blood_type_breakdown", "urgency_breakdown"}
    IN IF n = 0
       \* lines 694, 710: the empty frame has no columns
       THEN {Raised("KeyError", n)}
       ELSE IF p.group_by = "day"
            \* line 718
            THEN {Raised("AttributeError", n)}
            ELSE {IF o = "ok" THEN Returned(keys, n) ELSE Raised(o, n) : o \in ResampleSumOutcomes}

\* _generate_inventory_summary, lines 541-674.
InventorySummaryOutcomes(p, n) ==
    LET keys == {"summary", "trends", "expiring_breakdown", "expired_breakdown"}
    IN IF p.group_by # "day"
       THEN IF n = 0
            \* line 558: the empty frame has no 'date' column
            THEN {Raised("KeyError", n)}
            ELSE {Returned(keys, n)}
       ELSE IF n = 0
            THEN {Returned(keys, n)}
            \* line 629
            ELSE {Raised("AttributeError", n)}

\* _generate_donation_trends (419-538) and _generate_request_trends (240-416).
TrendsOutcomes(p, n) ==
    LET keys == {"trends", "analysis"}
    IN IF n = 0 THEN {Returned(keys, n)}
       ELSE IF p.group_by = "day"
            \* lines 377, 508: reached when polyfit did not raise
            THEN {Raised(IF o = "ok" THEN "AttributeError" ELSE o, n) : o \in PolyfitOutcomes(n)}
            ELSE {Raised("TypeError", n), Raised("LinAlgError", n), Returned(keys, n)}

\* _generate_inventory_forecast, lines 860-904.
InventoryForecastOutcomes(p, n) ==
    IF p.blood_types = <<>>
    \* line 872 -> 1047: Donation has no attribute BLOOD_GROUP_CHOICES
    THEN {Raised("AttributeError", n)}
    \* line 879: resample on an index of date objects (or an empty index)
    ELSE {Raised("TypeError", n)}

\* The summary table a report type reads.
TableOf(report_type) ==
    CASE report_type \in {"donation_summary", "donation_trends"} -> donationStats
      [] report_type \in {"request_summary", "request_trends"} -> requestStats
      [] OTHER -> snapshots

\* _generate_report, lines 222-237: the dispatch to the generators.
GenerateReportOutcomes(report_type, p) ==
    LET n == Len(InRange(TableOf(report_type), p))
    IN CASE report_type = "donation_summary" -> DonationSummaryOutcomes(p, n)
         [] report_type = "request_summary" -> RequestSummaryOutcomes(p, n)
         [] report_type = "inventory_summary" -> InventorySummaryOutcomes(p, n)
         [] report_type \in {"donation_trends", "request_trends"} -> TrendsOutcomes(p, n)
         [] report_type = "inventory_forecast" -> InventoryForecastOutcomes(p, n)
         [] OTHER -> {Raised("ValueError", n)}

\* The critical threshold of the inventory summary (line 593) and the number
\* of forecast days (line 887).
CRITICAL_LEVEL == 5

FORECAST_DAYS == 7

\* queryset.order_by('date') over rows with unique dates.
OrderByDate(rows) ==
    [k \in 1..Len(rows) |->
        rows[CHOOSE i \in 1..Len(rows) :
                 Cardinality({j \in 1..Len(rows) : rows[j].date < rows[i].date}) = k - 1]]

\* The Meta ordering ['-date'] of the daily tables.
OrderByDateDescending(rows) ==
    [k \in 1..Len(rows) |->
        rows[CHOOSE i \in 1..Len(rows) :
                 Cardinality({j \in 1..Len(rows) : rows[j].date > rows[i].date}) = k - 1]]

\* queryset.last() of a queryset in Meta ordering; None is the row dated 0.
QuerySetLast(rows) ==
    IF rows = <<>> THEN [date |-> 0, inventory_levels |-> <<>>]
    ELSE OrderByDateDescending(rows)[Len(rows)]

\* max(...) that lets a later item of the same value replace the earlier one.
RECURSIVE MaxUrgentIndexLast(_, _)
MaxUrgentIndexLast(rows, n) ==
    IF n = 1 THEN 1
    ELSE LET best == MaxUrgentIndexLast(rows, n - 1)
         IN IF rows[n].urgency_breakdown.urgent >= rows[best].urgency_breakdown.urgent
            THEN n ELSE best

\* max(urgent_by_day.items(), key=lambda x: x[1]) over the first n rows: the
\* items are in insertion order and a later item replaces the current maximum
\* only when its value is greater.
RECURSIVE MaxUrgentIndex(_, _)
MaxUrgentIndex(rows, n) ==
    IF n = 1 THEN 1
    ELSE LET best == MaxUrgentIndex(rows, n - 1)
         IN IF rows[n].urgency_breakdown.urgent > rows[best].urgency_breakdown.urgent
            THEN n ELSE best

\* Lines 361-373: most_urgent_day of the rows in date order, None without rows.
MostUrgentDay(rows) ==
    IF rows = <<>> THEN <<"none", 0>>
    ELSE IsoFormat(NativeDate(rows[MaxUrgentIndex(rows, Len(rows))].date))

\* The blood types a report keeps (the `blood_types and ... not in` tests).
KeptTypes(levels, p) ==
    {g \in DOMAIN levels :
        p.blood_types = <<>> \/ \E i \in 1..Len(p.blood_types) : p.blood_types[i] = g}

RECURSIVE SumLevels(_, _)
SumLevels(levels, S) ==
    IF S = {} THEN 0
    ELSE LET g == CHOOSE x \in S : TRUE IN levels[g] + SumLevels(levels, S \ {g})

\* Line 887: pd.date_range(end_date + timedelta(days=1), periods=7).
ForecastDates(p) == [i \in 1..FORECAST_DAYS |-> IsoFormat(NativeDate(p.end_date[2] + i))]

NoPayload ==
    [most_urgent_day |-> <<"none", 0>>, blood_type_levels |-> <<>>, total_units |-> 0,
     critical_levels |-> <<>>, forecast_dates |-> <<>>]

\* The values of the returned payload: analysis.most_urgent_day of the request
\* trends (lines 247-250, 361-373), the summary of the inventory summary
\* (lines 549-594), the forecast dates of the inventory forecast (887-896).
ReportPayload(report_type, p) ==
    CASE report_type = "request_trends" ->
           [NoPayload EXCEPT
              !.most_urgent_day = MostUrgentDay(OrderByDate(InRange(requestStats, p)))]
      [] report_type = "inventory_summary" ->
           LET levels == QuerySetLast(InRange(snapshots, p)).inventory_levels
               kept == KeptTypes(levels, p)
           IN [NoPayload EXCEPT
                 !.blood_type_levels = [g \in kept |-> levels[g]],
                 !.total_units = SumLevels(levels, kept),
                 !.critical_levels = [g \in {k \in kept : levels[k] < CRITICAL_LEVEL} |-> levels[g]]]
      [] report_type = "inventory_forecast" ->
           [NoPayload EXCEPT !.forecast_dates = ForecastDates(p)]
      [] OTHER -> NoPayload

\* A call of ReportService._generate_report(report_type, parameters).
GenerateReport(report_type, p) ==
    /\ gcall' = [report_type |-> report_type, parameters |-> p]
    /\ gout' \in GenerateReportOutcomes(report_type, p)
    /\ gpayload' = IF gout'.error = "none" THEN ReportPayload(report_type, p) ELSE NoPayload
    /\ UNCHANGED <<cacheVars, statsVars, runnerVars, viewVars, pureVars, deskVars>>

(***************************************************************************)
(* The trend classification of the trend reports                           *)
(* (src/analytics/services.py 286-295 and 460-469): the slope of the       *)
(* least-squares line through the points (0, y0) .. (n-1, y(n-1)) and the  *)
(* label it is given.  The slope is kept as an exact fraction num / den.   *)
(***************************************************************************)
MaxSeriesLen == 6
MaxValue == 5

\* The series handed to np.polyfit: the per-period totals ("count") or the
\* per-period rates ("rate").
SeriesInputs ==
    {[kind |-> k, values |-> ys] :
        k \in {"count", "rate"},
        ys \in UNION {[1..n -> 1..MaxValue] : n \in 1..MaxSeriesLen}}

NoSeries == [kind |-> "count", values |-> <<>>]

\* x = np.arange(len(df)): the sums of x and of x * x.
RECURSIVE SumX(_)
SumX(n) == IF n = 0 THEN 0 ELSE SumX(n - 1) + (n - 1)

RECURSIVE SumXX(_)
SumXX(n) == IF n = 0 THEN 0 ELSE SumXX(n - 1) + (n - 1) * (n - 1)

RECURSIVE SumY(_, _)
SumY(ys, n) == IF n = 0 THEN 0 ELSE SumY(ys, n - 1) + ys[n]

RECURSIVE SumXY(_, _)
SumXY(ys, n) == IF n = 0 THEN 0 ELSE SumXY(ys, n - 1) + (n - 1) * ys[n]

\* np.polyfit(x, y, 1)[0] for two or more points: the solution of the normal
\* equations of the least-squares line.
PolyfitSlope(ys) ==
    LET n == Len(ys)
    IN [num |-> n * SumXY(ys, n) - SumX(n) * SumY(ys, n),
        den |-> n * SumXX(n) - SumX(n) * SumX(n)]

\* The labels of lines 291 and 465 (totals) and 295 and 469 (rates).
TrendLabels(kind) ==
    IF kind = "count" THEN [up |-> "increasing", down |-> "decreasing", flat |-> "stable"]
                      ELSE [up |-> "improving", down |-> "declining", flat |-> "stable"]

\* A classification that treats every non-zero slope as a trend.
TrendOfSlopeNoBand(slope, kind) ==
    IF slope.num > 0 THEN {TrendLabels(kind).up}
    ELSE IF slope.num < 0 THEN {TrendLabels(kind).down}
    ELSE {TrendLabels(kind).flat}

\* 'increasing' if slope > 0.1 else 'decreasing' if slope < -0.1 else 'stable'.
\* The slope is a double computed by a least-squares solver and 0.1 is not a
\* double: for a series whose exact slope is 1/10 or -1/10 the comparison
\* can fall on either side.
TrendOfSlope(slope, kind) ==
    LET L == TrendLabels(kind)
    IN IF 10 * slope.num > slope.den THEN {L.up}
       ELSE IF 10 * slope.num = slope.den THEN {L.up, L.flat}
       ELSE IF 10 * slope.num < -slope.den THEN {L.down}
       ELSE IF 10 * slope.num = -slope.den THEN {L.down, L.flat}
       ELSE {L.flat}

\* Lines 287-295: a single point has no least-squares line; np.polyfit
\* then raises LinAlgError or yields NaN, which compares false both times.
TrendOutcomes(s) ==
    IF Len(s.values) < 2 THEN {"LinAlgError", "stable"}
    ELSE TrendOfSlope(PolyfitSlope(s.values), s.kind)

\* The trend of the series is computed.
ClassifyTrend ==
    /\ label = "none"
    /\ series # NoSeries
    /\ label' \in TrendOutcomes(series)
    /\ UNCHANGED <<series, rateVars, cacheVars, statsVars, runnerVars, viewVars, genVars, deskVars>>

(***************************************************************************)
(* The rates of the report generators (src/analytics/services.py 350-359,  *)
(* 413, 499-504, 714, 838).  A rate is kept as an exact fraction num / den *)
(* together with the exception its computation ended with.                 *)
(***************************************************************************)
MaxCount == 10

\* A numerator (fulfilled, successful) and a denominator (total).
RateInputs == {[n |-> n, d |-> d] : n \in 0..MaxCount, d \in 0..MaxCount}

Rate(num, den) == [error |-> "none", num |-> num, den |-> den]

NoRate == [error |-> "not computed", num |-> 0, den |-> 0]

NoRates == [summary |-> NoRate, blood_type |-> NoRate, urgent |-> NoRate]

\* A rounding that drops the digits after the second decimal.
Truncate2(r) ==
    Rate((100 * r.num) \div r.den, 100)

\* round(float(rate), 2): the nearest multiple of 0.01, a tie going to the
\* even one.
Round2(r) ==
    LET q == (100 * r.num) \div r.den
        rest == (100 * r.num) % r.den
    IN IF 2 * rest > r.den \/ (2 * rest = r.den /\ q % 2 = 1)
       THEN Rate(q + 1, 100)
       ELSE Rate(q, 100)

\* Lines 714 and 838: float(n / d * 100) if d > 0 else 0.0
SummaryRate(n, d) ==
    IF d > 0 THEN Rate(100 * n, d) ELSE Rate(0, 1)

\* Lines 323, 352-355 and 493, 501-504: the entry starts at 0 and is set to
\* round(float(n / total * 100), 2) only when total > 0.
BloodTypeRate(n, d) ==
    IF d > 0 THEN Round2(Rate(100 * n, d)) ELSE Rate(0, 1)

\* Lines 359 and 413: (n / d * 100) if d > 0 else 0, rounded in the payload.
UrgentFulfillmentRate(n, d) ==
    Round2(IF d > 0 THEN Rate(100 * n, d) ELSE Rate(0, 1))

\* The rates of a report are computed from the counts.
ComputeRates ==
    /\ rates = NoRates
    /\ rates' = [summary |-> SummaryRate(ratio.n, ratio.d),
                 blood_type |-> BloodTypeRate(ratio.n, ratio.d),
                 urgent |-> UrgentFulfillmentRate(ratio.n, ratio.d)]
    /\ UNCHANGED <<ratio, trendVars, cacheVars, statsVars, runnerVars, viewVars, genVars, deskVars>>

(***************************************************************************)
(* ChartService.generate_inventory_forecast_chart                          *)
(* (src/analytics/services.py 1176-1277).  A chart is its type, its labels *)
(* and the data list of each dataset; a data entry is a number num / den   *)
(* or None.                                                                *)
(***************************************************************************)
\* The default of the parameter `days`.
CHART_DAYS == 30

Number(num, den) == [null |-> FALSE, num |-> num, den |-> den]

None == [null |-> TRUE, num |-> 0, den |-> 1]

\* float('nan')
NaN == Number(0, 0)

\* No chart has been asked for.
NoChart ==
    [request |-> [blood_type |-> "none", days |-> 0],
     type |-> "none", labels |-> <<>>, datasets |-> <<>>]

\* [v] * n
Repeat(v, n) == [i \in 1..n |-> v]

\* Lines 1182-1199: the snapshots of the last `days` days in date order, and
\* the level of the blood type in each (0 when the snapshot has none).
ChartRows(days) ==
    OrderByDate(SelectSeq(snapshots, LAMBDA r : today - days <= r.date /\ r.date <= today))

ChartLevel(row, blood_type) ==
    IF blood_type \in DOMAIN row.inventory_levels THEN row.inventory_levels[blood_type] ELSE 0

\* Lines 1202-1223: no data.
EmptyChart ==
    [type |-> "line",
     labels |-> [i \in 1..FORECAST_DAYS |-> IsoFormat(NativeDate(today + i - 1))],
     datasets |-> <<Repeat(Number(0, 1), FORECAST_DAYS), Repeat(Number(0, 1), FORECAST_DAYS)>>]

\* p(x) of np.poly1d(np.polyfit(x, y, 1)) for two or more points.
PolyfitValue(ys, x) ==
    LET n == Len(ys)
        slope == PolyfitSlope(ys)
    IN Number(n * slope.num * x + SumY(ys, n) * slope.den - slope.num * SumX(n),
              n * slope.den)

\* The forecast entries p(n) .. p(n + 6); NaN when the fit gave NaN.
ForecastValues(levels, fit) ==
    [i \in 1..FORECAST_DAYS |->
        IF fit = "nan" THEN NaN ELSE PolyfitValue(levels, Len(levels) + i - 1)]

\* A forecast chart whose historical dataset is not padded.
ForecastChartUnpadded(dates, levels, fit) ==
    [type |-> "line",
     labels |-> dates \o [i \in 1..FORECAST_DAYS |->
                             IsoFormat(NativeDate(dates[Len(dates)][2] + i))],
     datasets |-> <<[i \in 1..Len(levels) |-> Number(levels[i], 1)],
                    Repeat(None, Len(levels)) \o ForecastValues(levels, fit)>>]

\* Lines 1225-1262: the forecast path.
ForecastChart(dates, levels, fit) ==
    [type |-> "line",
     labels |-> dates \o [i \in 1..FORECAST_DAYS |->
                             IsoFormat(NativeDate(dates[Len(dates)][2] + i))],
     datasets |-> <<[i \in 1..Len(levels) |-> Number(levels[i], 1)] \o Repeat(None, FORECAST_DAYS),
                    Repeat(None, Len(levels)) \o ForecastValues(levels, fit)>>]

\* Lines 1263-1277: forecasting failed before any date was appended.
HistoricalChart(dates, levels) ==
    [type |-> "line",
     labels |-> dates,
     datasets |-> <<[i \in 1..Len(levels) |-> Number(levels[i], 1)]>>]

\* np.polyfit over n points: with one point it raises LinAlgError or yields
\* NaN coefficients.
ChartFitOutcomes(n) == IF n < 2 THEN {"LinAlgError", "nan"} ELSE {"ok"}

\* generate_inventory_forecast_chart(blood_type, days)
ForecastChartOutcomes(blood_type, days) ==
    LET rows == ChartRows(days)
        dates == [i \in 1..Len(rows) |-> IsoFormat(NativeDate(rows[i].date))]
        levels == [i \in 1..Len(rows) |-> ChartLevel(rows[i], blood_type)]
    IN IF rows = <<>> THEN {EmptyChart}
       ELSE {IF fit = "LinAlgError" THEN HistoricalChart(dates, levels)
             ELSE ForecastChart(dates, levels, fit) : fit \in ChartFitOutcomes(Len(rows))}

GenerateInventoryForecastChart(blood_type, days) ==
    /\ chart = NoChart
    /\ chart' \in {[request |-> [blood_type |-> blood_type, days |-> days],
                    type |-> c.type, labels |-> c.labels, datasets |-> c.datasets] :
                       c \in ForecastChartOutcomes(blood_type, days)}
    /\ UNCHANGED <<cacheVars, statsVars, runnerVars, viewVars, genVars, pureVars, opVars>>

(***************************************************************************)
(* The donations views handled concurrently (src/donations/views.py,       *)
(* serializers.py, models.py): DonationCreateView.create,                  *)
(* DonationActionView.update with Donation.approve / reject, and           *)
(* BloodRequestActionView.update with BloodRequest.fulfill / deny.  Each   *)
(* handler works on the instances it loaded; every database access is a    *)
(* step of its own.  No view runs inside a transaction or locks a row.     *)
(***************************************************************************)
MaxOps == 3
MaxOpRecords == 2

\* The cooling period of DonationSerializer.validate, in days.
COOLING_DAYS == 90

Handlers == {1, 2}

Donors == {1, 2}

\* The status a request to an action view carries; "absent" is a partial
\* update without the field.
DonationActionValues == {"approved", "rejected", "absent"}

RequestActionValues == {"fulfilled", "denied", "absent"}

NoOperation ==
    [kind |-> "none", target |-> 0, donor |-> 0, blood_group |-> "none", quantity |-> 0,
     instance_status |-> "none", inv_quantity |-> 0, response |-> 0, error |-> "none"]

\* A pending donation of a donor, and a pending blood request.
PendingDonation(u, g, q) ==
    [donor |-> u, blood_group |-> g, quantity |-> q, status |-> "pending",
     request_date |-> 1, action_date |-> 0]

PendingRequest(g, q) ==
    [blood_group |-> g, quantity |-> q, urgency |-> FALSE, status |-> "pending",
     request_date |-> 1, action_date |-> 0]

\* inventory.save() followed by check_low_stock(): the row of the group gets
\* the quantity the handler computed.
SaveInventory(inv, g, q) ==
    [k \in DOMAIN inv \cup {g} |->
        IF k = g THEN [quantity |-> q, is_low |-> q < LOW_STOCK] ELSE inv[k]]

\* The handler answers and is free again.
Respond(p, code, err) ==
    /\ oper' = [oper EXCEPT ![p].response = code, ![p].error = err]
    /\ opc' = [opc EXCEPT ![p] = "idle"]

\* DonationSerializer.validate, lines 23-55, for a donor.
CreateRefused(u) ==
    \/ \E i \in 1..Len(donations) :
          /\ donations[i].donor = u
          /\ donations[i].status = "approved"
          /\ donations[i].action_date > today - COOLING_DAYS
    \/ \E i \in 1..Len(donations) :
          donations[i].donor = u /\ donations[i].status = "pending"

\* DonationCreateView.create: serializer.is_valid().
BeginCreate(p, u, g, q) ==
    /\ opc[p] = "idle"
    /\ opcount < MaxOps
    /\ opcount' = opcount + 1
    /\ IF CreateRefused(u)
       THEN /\ oper' = [oper EXCEPT ![p] =
                   [NoOperation EXCEPT !.kind = "create", !.donor = u, !.response = 400,
                                       !.error = "ValidationError"]]
            /\ UNCHANGED opc
       ELSE /\ oper' = [oper EXCEPT ![p] =
                   [NoOperation EXCEPT !.kind = "create", !.donor = u, !.blood_group = g,
                                       !.quantity = q]]
            /\ opc' = [opc EXCEPT ![p] = "save_create"]
    /\ UNCHANGED <<cacheVars, statsVars, runnerVars, viewVars, genVars, pureVars, chartVars>>

\* DonationCreateView.create: serializer.save().
SaveCreate(p) ==
    /\ opc[p] = "save_create"
    /\ donations' = Append(donations,
           [PendingDonation(oper[p].donor, oper[p].blood_group, oper[p].quantity)
               EXCEPT !.request_date = today])
    /\ Respond(p, 201, "none")
    /\ UNCHANGED <<requests, inventory, transactions, today, summaryVars, runs, srcVersion,
                   lastRun, opcount>>
    /\ UNCHANGED <<cacheVars, runnerVars, viewVars, genVars, pureVars, chartVars>>

\* DonationActionView.update: get_object(), is_valid() with validate_status
\* (serializers.py 74-84) when the field is present, and the status test of
\* approve() / reject() on the loaded instance.
BeginDonationAction(p, i, value) ==
    /\ opc[p] = "idle"
    /\ opcount < MaxOps
    /\ opcount' = opcount + 1
    /\ LET inst == donations[i]
           op == [NoOperation EXCEPT !.kind = IF value = "approved" THEN "approve" ELSE "reject",
                                     !.target = i, !.donor = inst.donor,
                                     !.blood_group = inst.blood_group,
                                     !.quantity = inst.quantity,
                                     !.instance_status = inst.status]
       IN IF inst.status # "pending"
          THEN /\ oper' = [oper EXCEPT ![p] =
                      [op EXCEPT !.response = 400,
                                 !.error = IF value = "absent" THEN "ValueError"
                                           ELSE "ValidationError"]]
               /\ UNCHANGED opc
          ELSE /\ oper' = [oper EXCEPT ![p] = op]
               /\ opc' = [opc EXCEPT ![p] =
                             IF value = "approved" THEN "read_inventory" ELSE "save_record"]
    /\ UNCHANGED <<cacheVars, statsVars, runnerVars, viewVars, genVars, pureVars, chartVars>>

\* BloodRequestActionView.update: get_object(), is_valid() with
\* validate_status (serializers.py 119-140) when the field is present, and
\* the status test of fulfill() / deny() on the loaded instance.
BeginRequestAction(p, i, value) ==
    /\ opc[p] = "idle"
    /\ opcount < MaxOps
    /\ opcount' = opcount + 1
    /\ LET inst == requests[i]
           op == [NoOperation EXCEPT !.kind = IF value = "fulfilled" THEN "fulfill" ELSE "deny",
                                     !.target = i,
                                     !.blood_group = inst.blood_group,
                                     !.quantity = inst.quantity,
                                     !.instance_status = inst.status]
           refused ==
               IF inst.status # "pending"
               THEN IF value = "absent" THEN "ValueError" ELSE "ValidationError"
               ELSE IF value = "fulfilled" /\ inst.blood_group \notin DOMAIN inventory
               THEN "ValidationError"
               ELSE IF value = "fulfilled" /\ inventory[inst.blood_group].quantity < inst.quantity
               THEN "ValidationError"
               ELSE "none"
       IN IF refused # "none"
          THEN /\ oper' = [oper EXCEPT ![p] = [op EXCEPT !.response = 400, !.error = refused]]
               /\ UNCHANGED opc
          ELSE /\ oper' = [oper EXCEPT ![p] = op]
               /\ opc' = [opc EXCEPT ![p] =
                             IF value = "fulfilled" THEN "read_inventory" ELSE "save_record"]
    /\ UNCHANGED <<cacheVars, statsVars, runnerVars, viewVars, genVars, pureVars, chartVars>>

\* approve(): Inventory.objects.get_or_create(...)[0];
\* fulfill(): Inventory.objects.get(...) and the test of the quantity.
ReadInventory(p) ==
    /\ opc[p] = "read_inventory"
    /\ LET g == oper[p].blood_group
           onHand == IF g \in DOMAIN inventory THEN inventory[g].quantity ELSE 0
       IN /\ inventory' = IF g \in DOMAIN inventory THEN inventory
                          ELSE [k \in DOMAIN inventory \cup {g} |->
                                   IF k = g THEN [quantity |-> 0, is_low |-> FALSE]
                                   ELSE inventory[k]]
          /\ IF oper[p].kind = "fulfill" /\ onHand < oper[p].quantity
             THEN Respond(p, 400, "ValueError")
             ELSE /\ oper' = [oper EXCEPT ![p].inv_quantity = onHand]
                  /\ opc' = [opc EXCEPT ![p] = "write_inventory"]
    /\ UNCHANGED <<donations, requests, transactions, today, summaryVars, runs, srcVersion,
                   lastRun, opcount>>
    /\ UNCHANGED <<cacheVars, runnerVars, viewVars, genVars, pureVars, chartVars>>

\* inventory.quantity += / -= self.quantity; inventory.save();
\* inventory.check_low_stock()
WriteInventory(p) ==
    /\ opc[p] = "write_inventory"
    /\ inventory' = SaveInventory(inventory, oper[p].blood_group,
                        IF oper[p].kind = "approve"
                        THEN oper[p].inv_quantity + oper[p].quantity
                        ELSE oper[p].inv_quantity - oper[p].quantity)
    /\ opc' = [opc EXCEPT ![p] = "save_record"]
    /\ UNCHANGED <<donations, requests, transactions, today, summaryVars, runs, srcVersion,
                   lastRun, oper, opcount>>
    /\ UNCHANGED <<cacheVars, runnerVars, viewVars, genVars, pureVars, chartVars>>

\* self.status = ...; self.action_date = timezone.now(); self.save()
SaveRecord(p) ==
    /\ opc[p] = "save_record"
    /\ LET i == oper[p].target
       IN CASE oper[p].kind = "approve" ->
                 /\ donations' = [donations EXCEPT ![i].status = "approved",
                                                   ![i].action_date = today]
                 /\ UNCHANGED requests
            [] oper[p].kind = "reject" ->
                 /\ donations' = [donations EXCEPT ![i].status = "rejected",
                                                   ![i].action_date = today]
                 /\ UNCHANGED requests
            [] oper[p].kind = "fulfill" ->
                 /\ requests' = [requests EXCEPT ![i].status = "fulfilled",
                                                 ![i].action_date = today]
                 /\ UNCHANGED donations
            [] OTHER ->
                 /\ requests' = [requests EXCEPT ![i].status = "denied",
                                                 ![i].action_date = today]
                 /\ UNCHANGED donations
    /\ IF oper[p].kind \in {"approve", "fulfill"}
       THEN opc' = [opc EXCEPT ![p] = "log"] /\ UNCHANGED oper
       ELSE Respond(p, 200, "none")
    /\ UNCHANGED <<inventory, transactions, today, summaryVars, runs, srcVersion, lastRun,
                   opcount>>
    /\ UNCHANGED <<cacheVars, runnerVars, viewVars, genVars, pureVars, chartVars>>

\* InventoryTransaction.objects.create(...)
LogTransaction(p) ==
    /\ opc[p] = "log"
    /\ transactions' = Append(transactions,
           [inventory |-> oper[p].blood_group,
            transaction_type |-> IF oper[p].kind = "approve" THEN "donation" ELSE "request",
            quantity |-> IF oper[p].kind = "approve" THEN oper[p].quantity
                         ELSE -oper[p].quantity,
            blood_group |-> oper[p].blood_group,
            timestamp |-> today])
    /\ Respond(p, 200, "none")
    /\ UNCHANGED <<donations, requests, inventory, today, summaryVars, runs, srcVersion,
                   lastRun, opcount>>
    /\ UNCHANGED <<cacheVars, runnerVars, viewVars, genVars, pureVars, chartVars>>

InitCache ==
    /\ now = 0
    /\ ticks = 0
    /\ calls = 0
    /\ lockStore = <<>>
    /\ reportCache = <<>>
    /\ genCount = 0
    /\ pc = [p \in Callers |-> "idle"]
    /\ args = [p \in Callers |-> NoArgs]
    /\ data = [p \in Callers |-> NoData]
    /\ result = [p \in Callers |-> "none"]
    /\ returned = [p \in Callers |-> NoData]
    /\ overlapped = [p \in Callers |-> {}]
    /\ sawEmpty = [p \in Callers |-> FALSE]
    /\ stored = [p \in Callers |-> FALSE]
    /\ retried = [p \in Callers |-> FALSE]

InitStats ==
    /\ today = 1
    /\ donations = <<>>
    /\ requests = <<>>
    /\ inventory = <<>>
    /\ transactions = <<>>
    /\ donationStats = <<>>
    /\ requestStats = <<>>
    /\ snapshots = <<>>
    /\ runs = 0
    /\ srcVersion = 0
    /\ lastRun = NoRun

InitRunners ==
    /\ rpc = [p \in Runners |-> "idle"]
    /\ rdate = 0
    /\ pending = [p \in Runners |-> NoDefaults]

\* No report has been generated directly yet.
\* _generate_report has not been called.
NoCall ==
    [report_type |-> "none",
     parameters |-> [start_date |-> NativeDate(0), end_date |-> NativeDate(0),
                     group_by |-> "day", blood_types |-> <<>>]]

NoOutcome == [error |-> "not called", keys |-> {}, rows |-> 0]

InitGen ==
    /\ gcall = NoCall
    /\ gout = NoOutcome
    /\ gpayload = NoPayload

InitChart == chart = NoChart

InitOps ==
    /\ opc = [p \in Handlers |-> "idle"]
    /\ oper = [p \in Handlers |-> NoOperation]
    /\ opcount = 0

InitDesk == InitChart /\ InitOps

\* No series has been handed to the trend classification.
InitTrendIdle ==
    /\ series = NoSeries
    /\ label = "none"

\* No rate has been computed.
InitRatesIdle ==
    /\ ratio = [n |-> 0, d |-> 0]
    /\ rates = NoRates

InitPure == InitTrendIdle /\ InitRatesIdle

\* A series is about to be classified.
InitTrend ==
    /\ InitCache /\ InitStats /\ InitRunners /\ InitView /\ InitGen /\ InitDesk /\ InitRatesIdle
    /\ series \in SeriesInputs
    /\ label = "none"

Init == InitCache /\ InitStats /\ InitRunners /\ InitView /\ InitGen /\ InitDesk /\ InitPure

\* The report cache: concurrent calls of get_or_generate_report and the clock.
Next ==
    \/ \E p \in Callers, a \in CallArgs : Enter(p, a)
    \/ \E p \in Callers : Lookup(p)
    \/ \E p \in Callers : AcquireOk(p)
    \/ \E p \in Callers : AcquireFail(p)
    \/ \E p \in Callers : GenerateOk(p)
    \/ \E p \in Callers : GenerateRaise(p)
    \/ \E p \in Callers : CacheReportOk(p)
    \/ \E p \in Callers : CacheReportRaise(p)
    \/ \E p \in Callers : Release(p)
    \/ Tick

Spec == Init /\ [][Next]_vars

\* Calls for one report by callers that repeat every call that met a held
\* lock; generation succeeds.
RetryArgs ==
    {a \in CallArgs : /\ a.report_type = "donation_summary"
                      /\ a.parameters.end_date = NativeDate(1)}

NextRetry ==
    \/ \E p \in Callers, a \in RetryArgs : result[p] # "conflict" /\ Enter(p, a)
    \/ \E p \in Callers : Retry(p)
    \/ \E p \in Callers : Lookup(p)
    \/ \E p \in Callers : AcquireOk(p)
    \/ \E p \in Callers : AcquireFail(p)
    \/ \E p \in Callers : GenerateOk(p)
    \/ \E p \in Callers : CacheReportOk(p)
    \/ \E p \in Callers : Release(p)
    \/ Tick

\* Every call runs in a request thread that is scheduled until it returns
\* (the call has no blocking step), and the caller does repeat the call.
FairRetry == \A p \in Callers : WF_vars(CallStep(p)) /\ WF_vars(Retry(p))

SpecRetry == Init /\ [][NextRetry]_vars /\ FairRetry

\* The daily rollups: the workflows, generate_daily_stats and the calendar.
NextStats ==
    \/ (\E g \in InputGroups, q \in DonationQuantities : CreateDonation(g, q)) /\ UNCHANGED <<cacheVars, auxVars>>
    \/ (\E i \in 1..Len(donations) : Approve(i)) /\ UNCHANGED <<cacheVars, auxVars>>
    \/ (\E i \in 1..Len(donations) : Reject(i)) /\ UNCHANGED <<cacheVars, auxVars>>
    \/ (\E g \in InputGroups, q \in RequestQuantities, u \in BOOLEAN : CreateRequest(g, q, u))
           /\ UNCHANGED <<cacheVars, auxVars>>
    \/ (\E i \in 1..Len(requests) : Fulfill(i)) /\ UNCHANGED <<cacheVars, auxVars>>
    \/ (\E i \in 1..Len(requests) : Deny(i)) /\ UNCHANGED <<cacheVars, auxVars>>
    \/ (\E d \in 1..MaxDay : GenerateDailyStats(d)) /\ UNCHANGED <<cacheVars, auxVars>>
    \/ NextDay /\ UNCHANGED <<cacheVars, auxVars>>

SpecStats == Init /\ [][NextStats]_vars

\* The daily rollups over at most MaxRollupRecords source records.
NextRollup ==
    \/ /\ Len(donations) + Len(requests) < MaxRollupRecords
       /\ \E g \in InputGroups, q \in DonationQuantities : CreateDonation(g, q)
       /\ UNCHANGED <<cacheVars, auxVars>>
    \/ (\E i \in 1..Len(donations) : Approve(i)) /\ UNCHANGED <<cacheVars, auxVars>>
    \/ (\E i \in 1..Len(donations) : Reject(i)) /\ UNCHANGED <<cacheVars, auxVars>>
    \/ /\ Len(donations) + Len(requests) < MaxRollupRecords
       /\ \E g \in InputGroups, q \in RequestQuantities, u \in BOOLEAN : CreateRequest(g, q, u)
       /\ UNCHANGED <<cacheVars, auxVars>>
    \/ (\E i \in 1..Len(requests) : Fulfill(i)) /\ UNCHANGED <<cacheVars, auxVars>>
    \/ (\E i \in 1..Len(requests) : Deny(i)) /\ UNCHANGED <<cacheVars, auxVars>>
    \/ /\ runs < MaxRollups
       /\ \E d \in 1..MaxRollupDay : GenerateDailyStats(d)
       /\ UNCHANGED <<cacheVars, auxVars>>
    \/ today < MaxRollupDay /\ NextDay /\ UNCHANGED <<cacheVars, auxVars>>

\* The bank opens with one unit of A+ in stock and no other record.
InitRollup ==
    /\ InitCache /\ InitRunners /\ InitView /\ InitGen /\ InitDesk /\ InitPure
    /\ today = 1
    /\ donations = <<>>
    /\ requests = <<>>
    /\ inventory = AdjustInventory(<<>>, "A+", 1)
    /\ transactions = <<>>
    /\ donationStats = <<>>
    /\ requestStats = <<>>
    /\ snapshots = <<>>
    /\ runs = 0
    /\ srcVersion = 0
    /\ lastRun = NoRun

SpecRollup == InitRollup /\ [][NextRollup]_vars

\* The workflows build the source records; then the concurrent runs start and
\* the source records stay as they are.
NextRuns ==
    \/ /\ NoRunStarted
       /\ \E g \in InputGroups, q \in DonationQuantities : CreateDonation(g, q)
       /\ UNCHANGED <<cacheVars, auxVars>>
    \/ NoRunStarted /\ (\E i \in 1..Len(donations) : Approve(i)) /\ UNCHANGED <<cacheVars, auxVars>>
    \/ NoRunStarted /\ (\E i \in 1..Len(donations) : Reject(i)) /\ UNCHANGED <<cacheVars, auxVars>>
    \/ /\ NoRunStarted
       /\ \E g \in InputGroups, q \in RequestQuantities, u \in BOOLEAN : CreateRequest(g, q, u)
       /\ UNCHANGED <<cacheVars, auxVars>>
    \/ NoRunStarted /\ (\E i \in 1..Len(requests) : Fulfill(i)) /\ UNCHANGED <<cacheVars, auxVars>>
    \/ NoRunStarted /\ (\E i \in 1..Len(requests) : Deny(i)) /\ UNCHANGED <<cacheVars, auxVars>>
    \/ NextDay /\ UNCHANGED <<cacheVars, auxVars>>
    \/ (\E p \in Runners, d \in 1..MaxDay : StartRun(p, d)) /\ UNCHANGED <<cacheVars, viewVars, genVars, pureVars, deskVars>>
    \/ (\E p \in Runners : ComputeDonation(p)) /\ UNCHANGED <<cacheVars, viewVars, genVars, pureVars, deskVars>>
    \/ (\E p \in Runners : SaveDonation(p)) /\ UNCHANGED <<cacheVars, viewVars, genVars, pureVars, deskVars>>
    \/ (\E p \in Runners : ComputeRequest(p)) /\ UNCHANGED <<cacheVars, viewVars, genVars, pureVars, deskVars>>
    \/ (\E p \in Runners : SaveRequest(p)) /\ UNCHANGED <<cacheVars, viewVars, genVars, pureVars, deskVars>>
    \/ (\E p \in Runners : ComputeSnapshot(p)) /\ UNCHANGED <<cacheVars, viewVars, genVars, pureVars, deskVars>>
    \/ (\E p \in Runners : SaveSnapshot(p)) /\ UNCHANGED <<cacheVars, viewVars, genVars, pureVars, deskVars>>

SpecRuns == Init /\ [][NextRuns]_vars

\* Rollups of the days, and reports generated from the summary tables.
NextReports ==
    \/ /\ runs < MaxRollups
       /\ \E d \in 1..MaxRollupDay : GenerateDailyStats(d)
       /\ UNCHANGED <<cacheVars, auxVars>>
    \/ today < MaxRollupDay /\ NextDay /\ UNCHANGED <<cacheVars, auxVars>>
    \/ \E t \in SERIALIZER_REPORT_TYPES \cup {"donors"}, p \in GenParams : GenerateReport(t, p)

SpecReports == Init /\ [][NextReports]_vars

\* The urgent requests a day of the history can have.
MaxUrgent == 1

\* The days that have rows, in the order the rows were inserted.
HistoryDays ==
    {days \in UNION {[1..n -> 1..MaxRollupDay] : n \in 0..MaxRollupDay} :
        \A i, j \in 1..Len(days) : i # j => days[i] # days[j]}

\* The row generate_daily_stats stores for a day with u pending urgent
\* requests for A+.
RequestStatsRow(d, u) ==
    [date |-> d, total_requests |-> u, fulfilled_requests |-> 0,
     pending_requests |-> u, cancelled_requests |-> 0,
     blood_type_breakdown |-> [g \in BloodGroups |->
         IF g = "A+" THEN [total |-> u, fulfilled |-> 0, pending |-> u, cancelled |-> 0]
         ELSE [total |-> 0, fulfilled |-> 0, pending |-> 0, cancelled |-> 0]],
     urgency_breakdown |-> [urgent |-> u, normal |-> 0]]

\* The levels of A+ and O- a snapshot of the history can hold.
SnapshotLevels == {CRITICAL_LEVEL - 1, CRITICAL_LEVEL}

\* The row generate_daily_stats stores on a day with these units in stock.
SnapshotRow(d, a, o) ==
    LET levels == [g \in {"A+", "O-"} |-> IF g = "A+" THEN a ELSE o]
    IN [date |-> d, inventory_levels |-> levels,
        expiring_soon |-> [g \in {k \in DOMAIN levels : levels[k] < LOW_STOCK} |-> levels[g]],
        expired_today |-> <<>>]

\* The summary tables hold the rows of some days of rollups.
InitPayload ==
    /\ InitCache /\ InitRunners /\ InitView /\ InitGen /\ InitDesk /\ InitPure
    /\ today = MaxRollupDay
    /\ donations = <<>>
    /\ requests = <<>>
    /\ inventory = <<>>
    /\ transactions = <<>>
    /\ donationStats = <<>>
    /\ \E days \in HistoryDays :
         \E us \in [1..Len(days) -> 0..MaxUrgent], ls \in [1..Len(days) -> SnapshotLevels] :
            /\ requestStats = [i \in 1..Len(days) |-> RequestStatsRow(days[i], us[i])]
            /\ snapshots = [i \in 1..Len(days) |-> SnapshotRow(days[i], ls[i], CRITICAL_LEVEL)]
    /\ runs = 0
    /\ srcVersion = 0
    /\ lastRun = NoRun

\* One report is generated from the tables.
NextPayload ==
    /\ gcall = NoCall
    /\ \E t \in {"request_trends", "inventory_summary", "inventory_forecast"}, p \in GenParams :
          GenerateReport(t, p)

SpecPayload == InitPayload /\ [][NextPayload]_vars

\* The pending records the bank starts with: donations of distinct donors
\* and blood requests; the inventory and the transaction log are empty.
InitialDonations ==
    {ds \in UNION {[1..n -> {PendingDonation(u, "A+", 1) : u \in Donors}] :
                      n \in 0..MaxOpRecords} :
        \A i, j \in 1..Len(ds) : i # j => ds[i].donor # ds[j].donor}

InitialRequests ==
    UNION {[1..n -> {PendingRequest(g, q) : g \in InputGroups, q \in {1, 2}}] :
              n \in 0..MaxOpRecords}

InitDonations ==
    /\ InitCache /\ InitRunners /\ InitView /\ InitGen /\ InitDesk /\ InitPure
    /\ today = 1
    /\ donations \in InitialDonations
    /\ requests \in InitialRequests
    /\ inventory = <<>>
    /\ transactions = <<>>
    /\ donationStats = <<>>
    /\ requestStats = <<>>
    /\ snapshots = <<>>
    /\ runs = 0
    /\ srcVersion = 0
    /\ lastRun = NoRun

\* Requests to the donations views, handled concurrently.
NextDonations ==
    \/ \E p \in Handlers, u \in Donors : BeginCreate(p, u, "A+", 1)
    \/ \E p \in Handlers : SaveCreate(p)
    \/ \E p \in Handlers, i \in 1..Len(donations), v \in DonationActionValues :
          BeginDonationAction(p, i, v)
    \/ \E p \in Handlers, i \in 1..Len(requests), v \in RequestActionValues :
          BeginRequestAction(p, i, v)
    \/ \E p \in Handlers : ReadInventory(p)
    \/ \E p \in Handlers : WriteInventory(p)
    \/ \E p \in Handlers : SaveRecord(p)
    \/ \E p \in Handlers : LogTransaction(p)

SpecDonations == InitDonations /\ [][NextDonations]_vars

\* One chart is generated from the snapshots.
NextChart ==
    \E blood_type \in {"A+", "AB-"}, days \in {0, CHART_DAYS} :
        GenerateInventoryForecastChart(blood_type, days)

SpecChart == InitPayload /\ [][NextChart]_vars

\* The counts whose rates are about to be computed.
InitRates ==
    /\ InitCache /\ InitStats /\ InitRunners /\ InitView /\ InitGen /\ InitDesk /\ InitTrendIdle
    /\ ratio \in RateInputs
    /\ rates = NoRates

\* The rate computations applied to a pair of counts.
NextRates == ComputeRates

SpecRates == InitRates /\ [][NextRates]_vars

\* The trend classification applied to a series.
NextTrend == ClassifyTrend

SpecTrend == InitTrend /\ [][NextTrend]_vars

\* Requests posted to GenerateReportView.
NextView ==
    \/ \E req \in PostedRequests : Post(req)
    \/ SerializerIsValid
    \/ ViewChecks

SpecView == Init /\ [][NextView]_vars

(***************************************************************************)
(* Properties of the report cache, checked under Spec.                     *)
(***************************************************************************)
\* The call of worker p has invoked the report generator.
Ran(p) ==
    \/ pc[p] \in {"generate", "cache", "release"}
    \/ pc[p] = "done" /\ result[p] \in {"ok", "gen_error", "cache_error"}

\* The calls of workers p and q were for the same key and overlapped in time.
Concurrent(p, q) == p # q /\ q \in overlapped[p] /\ p \in overlapped[q]

\* Row i is stored under the key of worker p's call.
RowOfKey(i, p) ==
    /\ reportCache[i].report_type = args[p].report_type
    /\ reportCache[i].parameters = ProcessParams(args[p].parameters)

\* Row i may be served to worker p: its key, unexpired, not generating.
Servable(i, p) ==
    /\ RowOfKey(i, p)
    /\ reportCache[i].expires_at > now
    /\ reportCache[i].is_generating = FALSE

\* Worker p takes its lookup step.
LookupStep(p) == pc[p] = "lookup" /\ pc'[p] # "lookup"

\* C1: when two calls for the same key run concurrently and both find no
\* cache entry for it, exactly one of them runs the report generator and the
\* other fails with "Report generation already in progress".
C1_LockExclusivity ==
    \A p, q \in Callers :
        (/\ Concurrent(p, q)
         /\ sawEmpty[p] /\ sawEmpty[q]
         /\ pc[p] = "done" /\ pc[q] = "done")
        => \/ Ran(p) /\ result[q] = "conflict"
           \/ Ran(q) /\ result[p] = "conflict"

\* C2: no two calls for the same key execute the report generator at the same
\* time, also when a generation outlasts the lock's timeout.
C2_SingleFlight ==
    \A p, q \in Callers :
        (p # q /\ pc[p] = "generate" /\ pc[q] = "generate") => LockKey(p) # LockKey(q)

\* C3: a call that acquired the generation lock has removed the lock key when
\* it exits, however it exits (payload returned, generator raised, storing
\* the row raised).
C3_LockReleasedOnExit ==
    [][\A p \in Callers :
          (pc[p] \in {"generate", "cache", "release"}
           /\ pc'[p] \notin {"generate", "cache", "release"})
          => (pc'[p] = "done" /\ LockKey(p) \notin DOMAIN lockStore')]_vars

\* A call whose _cache_report raised has exited and no lock key is left.
C3_Witness ==
    \E p \in Callers :
        pc[p] = "done" /\ result[p] = "cache_error" /\ LockKey(p) \notin DOMAIN lockStore

\* C4: a call that reaches the lock while it is held fails at once with the
\* "already in progress" error: no generator run, no new row, the lock left
\* as it was.
C4_ConflictFailsFast ==
    [][\A p \in Callers :
          (pc[p] = "acquire" /\ pc'[p] # "acquire" /\ CacheHas(lockStore, LockKey(p), now))
          => (/\ pc'[p] = "done"
              /\ result'[p] = "conflict"
              /\ genCount' = genCount
              /\ reportCache' = reportCache
              /\ lockStore' = lockStore)]_vars

\* A call has failed with the conflict while the lock's owner still generates.
C4_Witness ==
    \E p, q \in Callers :
        /\ pc[p] = "done" /\ result[p] = "conflict"
        /\ pc[q] = "generate" /\ LockKey(q) = LockKey(p)
        /\ CacheHas(lockStore, LockKey(q), now)

\* C5: a call without force_refresh that looks up a key for which a stored,
\* unexpired row exists returns the payload of such a row (the latest), and
\* neither runs the generator, nor takes the lock, nor creates a row.
C5_CacheHit ==
    [][\A p \in Callers :
          (LookupStep(p)
           /\ \E i \in 1..Len(reportCache) :
                  RowOfKey(i, p) /\ reportCache[i].expires_at > now)
          => (/\ pc'[p] = "done"
              /\ result'[p] = "hit"
              /\ \E i \in 1..Len(reportCache) :
                    /\ RowOfKey(i, p) /\ reportCache[i].expires_at > now
                    /\ \A j \in 1..Len(reportCache) :
                          (RowOfKey(j, p) /\ reportCache[j].expires_at > now)
                          => reportCache[j].created_at <= reportCache[i].created_at
                    /\ returned'[p] = reportCache[i].data
              /\ genCount' = genCount
              /\ lockStore' = lockStore
              /\ reportCache' = reportCache)]_vars

\* One call computed and stored a payload, a later one was served the stored
\* form of that payload.
C5_Witness ==
    \E p, q \in Callers :
        /\ p # q
        /\ pc[q] = "done" /\ result[q] = "ok" /\ returned[q].form = "raw"
        /\ pc[p] = "done" /\ result[p] = "hit"
        /\ returned[p] = ProcessDatesInData(returned[q])
        /\ genCount = 1

\* C6: whenever no call is in progress, the table holds at most one unexpired
\* row with is_generating false per (report_type, parameters).
C6_AtMostOneValidRow ==
    (\A p \in Callers : ~Active(p))
    => \A i, j \in 1..Len(reportCache) :
          (/\ i # j
           /\ reportCache[i].report_type = reportCache[j].report_type
           /\ reportCache[i].parameters = reportCache[j].parameters
           /\ reportCache[i].expires_at > now /\ reportCache[j].expires_at > now)
          => (reportCache[i].is_generating \/ reportCache[j].is_generating)

\* C7: a lookup returns only the payload of a row of the call's own
\* report_type and parameters that is unexpired and not generating; when there
\* is no such row the call takes the miss path.
C7_OnlyServableRows ==
    [][\A p \in Callers :
          LookupStep(p)
          => /\ result'[p] = "hit"
                => \E i \in 1..Len(reportCache) :
                       Servable(i, p) /\ returned'[p] = reportCache[i].data
             /\ (~\E i \in 1..Len(reportCache) : Servable(i, p))
                => (pc'[p] = "acquire" /\ result'[p] = "none" /\ returned'[p] = NoData)]_vars

\* A call took the miss path although the table holds a row of its key: the
\* row has expired.
C7_Witness ==
    \E p \in Callers :
        /\ pc[p] = "acquire" /\ args[p].force_refresh = FALSE
        /\ \E i \in 1..Len(reportCache) : RowOfKey(i, p) /\ reportCache[i].expires_at <= now

\* C8: a call whose generator raised creates or changes no row and ends with
\* the error; every row is created by a call whose generator had returned a
\* payload, and holds that payload.
C8_NoRowOnGeneratorError ==
    [][/\ \A p \in Callers :
             (result'[p] = "gen_error" /\ pc[p] \in {"generate", "release"} /\ pc'[p] # pc[p])
             => (/\ reportCache' = reportCache
                 /\ pc'[p] = IF pc[p] = "generate" THEN "release" ELSE "done"
                 /\ stored'[p] = FALSE)
       /\ reportCache' # reportCache
             => \E p \in Callers :
                   /\ pc[p] = "cache" /\ data[p].gen > 0 /\ result[p] = "none"
                   /\ reportCache' = Append(reportCache,
                          [report_type |-> args[p].report_type,
                           parameters |-> ProcessParams(args[p].parameters),
                           data |-> ProcessDatesInData(data[p]),
                           created_at |-> now,
                           expires_at |-> reportCache'[Len(reportCache')].expires_at,
                           is_generating |-> reportCache'[Len(reportCache')].is_generating])]_vars

\* A call has ended with the generator's error and the table is still empty.
C8_Witness ==
    \E p \in Callers :
        pc[p] = "done" /\ result[p] = "gen_error" /\ ~stored[p] /\ reportCache = <<>>

\* C9: every row has expires_at = created_at + 24 hours and is_generating
\* false, a new row is stamped with the current time, and no step changes or
\* removes a row once it is there.
C9_RowLifetime ==
    [][/\ \A i \in 1..Len(reportCache') :
             /\ reportCache'[i].expires_at = reportCache'[i].created_at + 24 * 60 * 60
             /\ reportCache'[i].is_generating = FALSE
       /\ Len(reportCache') >= Len(reportCache)
       /\ \A i \in 1..Len(reportCache) : reportCache'[i] = reportCache[i]
       /\ \A i \in (Len(reportCache) + 1)..Len(reportCache') :
             reportCache'[i].created_at = now]_vars

\* Two rows were created at different times and the older one is still there.
C9_Witness ==
    /\ Len(reportCache) = 2
    /\ reportCache[1].created_at < reportCache[2].created_at
    /\ reportCache[1].expires_at = reportCache[1].created_at + CACHE_DURATION

(***************************************************************************)
(* Properties of the daily rollups, checked under SpecStats.               *)
(***************************************************************************)
\* C10: a call of generate_daily_stats(D) that follows a call for the same D
\* with no change of the source records in between leaves exactly one row
\* for D in each summary table, with the content the first call left.
C10_Idempotent ==
    [][(/\ runs' = runs + 1
        /\ lastRun'.date = lastRun.date
        /\ lastRun.version = srcVersion)
       => (/\ donationStats' = donationStats
           /\ requestStats' = requestStats
           /\ snapshots' = snapshots
           /\ Len(RowsFor(donationStats', lastRun.date)) = 1
           /\ Len(RowsFor(requestStats', lastRun.date)) = 1
           /\ Len(RowsFor(snapshots', lastRun.date)) = 1)]_vars

\* The latest generate_daily_stats run saw the source records as they are now.
RunIsCurrent == lastRun # NoRun /\ lastRun.version = srcVersion

\* The donations with request date D, of blood type g, in status st ("any"
\* stands for no restriction).
DonationsOn(D, g, st) ==
    {i \in 1..Len(donations) :
        /\ donations[i].request_date = D
        /\ g \in {"any", donations[i].blood_group}
        /\ st \in {"any", donations[i].status}}

\* C12: after generate_daily_stats(D) the one DailyDonationStats row for D holds
\* the number of donations requested on D, of those approved and of those
\* rejected, and for each of the 8 blood types the same three counts
\* restricted to the type (all zero when no donation was requested on D).
C12_DonationCounts ==
    RunIsCurrent =>
        LET D == lastRun.date
        IN \E k \in 1..Len(donationStats) :
              /\ donationStats[k].date = D
              /\ \A j \in 1..Len(donationStats) : donationStats[j].date = D => j = k
              /\ donationStats[k].total_donations = Cardinality(DonationsOn(D, "any", "any"))
              /\ donationStats[k].successful_donations =
                     Cardinality(DonationsOn(D, "any", "approved"))
              /\ donationStats[k].rejected_donations =
                     Cardinality(DonationsOn(D, "any", "rejected"))
              /\ DOMAIN donationStats[k].blood_type_breakdown =
                     {"A+", "A-", "B+", "B-", "AB+", "AB-", "O+", "O-"}
              /\ \A g \in DOMAIN donationStats[k].blood_type_breakdown :
                     donationStats[k].blood_type_breakdown[g] =
                         [total |-> Cardinality(DonationsOn(D, g, "any")),
                          successful |-> Cardinality(DonationsOn(D, g, "approved")),
                          rejected |-> Cardinality(DonationsOn(D, g, "rejected"))]
              /\ DonationsOn(D, "any", "any") = {}
                     => /\ donationStats[k].total_donations = 0
                        /\ \A g \in DOMAIN donationStats[k].blood_type_breakdown :
                               donationStats[k].blood_type_breakdown[g].total = 0

\* The rollup of a date with one approved donation has been stored, and the
\* rollup of a date without donations as well.
C12_Witness ==
    /\ RunIsCurrent
    /\ \E k \in 1..Len(donationStats) :
          /\ donationStats[k].successful_donations = 1
          /\ \E g \in InputGroups : donationStats[k].blood_type_breakdown[g].successful = 1
          /\ \E g \in InputGroups : donationStats[k].blood_type_breakdown[g].total = 0
    /\ \E k \in 1..Len(donationStats) : donationStats[k].total_donations = 0

\* The sum of the inventory transactions of blood type g recorded on date D.
NetOn(g, D) ==
    SumQuantity(SelectSeq(transactions, LAMBDA t : t.blood_group = g /\ t.timestamp = D))

\* C13: the snapshot stored for D by generate_daily_stats(D), whatever the
\* current date is, has in expired_today an entry for exactly the blood types
\* whose transactions recorded on D sum to a negative number, and the entry is
\* the absolute value of that sum.
C13_ExpiredOnDate ==
    RunIsCurrent =>
        \A k \in 1..Len(snapshots) :
            snapshots[k].date = lastRun.date
            => /\ DOMAIN snapshots[k].expired_today =
                      {g \in BloodGroups : NetOn(g, lastRun.date) < 0}
               /\ \A g \in DOMAIN snapshots[k].expired_today :
                      snapshots[k].expired_today[g] = -NetOn(g, lastRun.date)

\* The rows of a summary table that are not for date D.
RowsNotFor(table, D) == SelectSeq(table, LAMBDA r : r.date # D)

\* C14: a generate_daily_stats(D) run changes no Donation, BloodRequest,
\* Inventory or InventoryTransaction record, and in the three summary tables
\* it leaves every row that is not for D as it was.
C14_RollupFrame ==
    [][runs' = runs + 1
       => /\ donations' = donations
          /\ requests' = requests
          /\ inventory' = inventory
          /\ transactions' = transactions
          /\ RowsNotFor(donationStats', lastRun'.date) = RowsNotFor(donationStats, lastRun'.date)
          /\ RowsNotFor(requestStats', lastRun'.date) = RowsNotFor(requestStats, lastRun'.date)
          /\ RowsNotFor(snapshots', lastRun'.date) = RowsNotFor(snapshots, lastRun'.date)
          /\ Len(RowsNotFor(donationStats', lastRun'.date)) = Len(donationStats') - 1]_vars

\* Two runs for different dates have been made over a source that holds an
\* approved donation, its inventory row and its transaction.
C14_Witness ==
    /\ runs = 2
    /\ Len(donationStats) = 2 /\ Len(requestStats) = 2 /\ Len(snapshots) = 2
    /\ transactions # <<>>
    /\ \E g \in DOMAIN inventory : inventory[g].quantity > 0

(***************************************************************************)
(* Properties of concurrent rollup runs, checked under SpecRuns.           *)
(***************************************************************************)
\* Every concurrent run has returned.
AllRunsDone == \A p \in Runners : rpc[p] = "done"

\* The snapshot of the source records for date D: the stock, the low stock and
\* the net depletion recorded on D.
SnapshotOf(D) == InventorySnapshotFor(D, D)

\* C11: when concurrent generate_daily_stats runs for the same date D over
\* unchanged source records have all returned, each summary table holds
\* exactly one row for D, and the row is the rollup of the source records
\* for D.
C11_ConcurrentRuns ==
    AllRunsDone =>
        /\ RowsFor(donationStats, rdate) = <<DonationStatsFor(rdate)>>
        /\ RowsFor(requestStats, rdate) = <<RequestStatsFor(rdate)>>
        /\ RowsFor(snapshots, rdate) = <<SnapshotOf(rdate)>>

\* The part of C11 that the unique date column and update_or_create ensure:
\* one row per table for D, the donation and request rows being the rollups.
ConcurrentRunsOneRow ==
    AllRunsDone =>
        /\ RowsFor(donationStats, rdate) = <<DonationStatsFor(rdate)>>
        /\ RowsFor(requestStats, rdate) = <<RequestStatsFor(rdate)>>
        /\ Len(RowsFor(snapshots, rdate)) = 1

(***************************************************************************)
(* Properties of the report request validation, checked under SpecView.    *)
(***************************************************************************)
\* The posted request names one of the six report types and one of the three
\* formats, and its range is not inverted and not longer than 365 days.
WellFormed(req) ==
    /\ req.report_type \in {"donation_summary", "request_summary", "inventory_summary",
                            "donation_trends", "request_trends", "inventory_forecast"}
    /\ req.format \in {"json", "pdf", "excel"}
    /\ req.start_date[2] <= req.end_date[2]
    /\ req.end_date[2] - req.start_date[2] <= 365

\* C15: a report request with one of the six report types, the format json,
\* pdf or excel and a valid date range is not answered with a validation
\* error: the view goes on to get_or_generate_report.
C15_WellFormedAccepted ==
    (vpc = "responded" /\ WellFormed(vreq))
    => vresp.error \in {"none", "exception"}

\* C16: the serializer rejects a request (of a known report type and format)
\* whose start_date is later than its end_date or whose range is longer than
\* 365 days, and accepts every other one, among them start_date = end_date and
\* a range of exactly 365 days.
C16_DateRange ==
    [][(vpc = "is_valid" /\ vpc' # "is_valid"
        /\ vreq.report_type \in SERIALIZER_REPORT_TYPES
        /\ vreq.format \in SERIALIZER_FORMATS)
       => LET first == vreq.start_date[2]
              last == vreq.end_date[2]
          IN IF first > last \/ last - first > 365
             THEN /\ vpc' = "responded"
                  /\ vresp'.status = 400
                  /\ vresp'.error \in {"End date must be after start date",
                                       "Date range cannot exceed 365 days"}
             ELSE /\ vpc' = "view_checks"
                  /\ vresp' = NoResponse
                  /\ vreq'.start_date = NativeDate(first)
                  /\ vreq'.end_date = NativeDate(last)]_vars

\* The serializer has accepted a request with a range of exactly 365 days.
C16_Witness ==
    /\ vpc = "view_checks"
    /\ vreq.end_date[2] - vreq.start_date[2] = 365

(***************************************************************************)
(* Properties of the report generators, checked under SpecReports.         *)
(***************************************************************************)
\* _generate_report was called for one of the six report types.
SixTypesCalled ==
    /\ gout # NoOutcome
    /\ gcall.report_type \in {"donation_summary", "request_summary", "inventory_summary",
                              "donation_trends", "request_trends", "inventory_forecast"}

\* C17: for each of the six report types, a report over a date range without
\* daily summary rows returns a payload and raises no error.
C17_EmptyRangeReturns ==
    (SixTypesCalled /\ gout.rows = 0) => gout.error = "none"

\* C18: for each of the six report types, on the empty-range path and on the
\* path with rows, a payload that _generate_report returns has a 'summary'
\* entry.
C18_PayloadHasSummary ==
    (SixTypesCalled /\ gout.error = "none") => "summary" \in gout.keys

(***************************************************************************)
(* Properties of the trend classification, checked under SpecTrend.        *)
(***************************************************************************)
\* The mean of x and of y, times n.
CentredX(i, n) == n * (i - 1) - SumX(n)

CentredY(ys, i) == Len(ys) * ys[i] - SumY(ys, Len(ys))

\* n * n * sum (x - mean x)(y - mean y): the numerator of the slope.
RECURSIVE Covariance(_, _)
Covariance(ys, i) ==
    IF i = 0 THEN 0 ELSE Covariance(ys, i - 1) + CentredX(i, Len(ys)) * CentredY(ys, i)

\* n * n * sum (x - mean x)^2: its denominator.
RECURSIVE Variance(_, _)
Variance(n, i) ==
    IF i = 0 THEN 0 ELSE Variance(n, i - 1) + CentredX(i, n) * CentredX(i, n)

\* The series has been classified.
Classified == label # "none" /\ Len(series.values) >= 2

\* [3,3,3,3] is stable, [5,4,3,2,1] is decreasing, and the rate series carry
\* the labels improving and declining.
TrendExamples ==
    /\ series.values = <<3, 3, 3, 3>> /\ label # "none" => label = "stable"
    /\ series.values = <<5, 4, 3, 2, 1>> /\ label # "none"
          => label = (IF series.kind = "count" THEN "decreasing" ELSE "declining")
    /\ series.values = <<1, 2, 3, 4, 5>> /\ label # "none"
          => label = (IF series.kind = "count" THEN "increasing" ELSE "improving")

\* C19: a series of two or more points is labelled by the slope of its
\* least-squares line over the index 0..n-1: increasing (improving for a rate
\* series) when the slope is above 0.1, decreasing (declining) when it is
\* below -0.1, stable when it is strictly between; a slope of exactly 0.1 or
\* -0.1 is labelled stable or with the trend next to it.  [1,2,3,4,5] is
\* increasing, [3,3,3,3] stable and [5,4,3,2,1] decreasing.
C19_TrendBySlope ==
    /\ TrendExamples
    /\ Classified =>
           LET ys == series.values
               cov == Covariance(ys, Len(ys))
               var == Variance(Len(ys), Len(ys))
               up == IF series.kind = "count" THEN "increasing" ELSE "improving"
               down == IF series.kind = "count" THEN "decreasing" ELSE "declining"
           IN /\ var > 0
              /\ 10 * cov > var => label = up
              /\ 10 * cov < -var => label = down
              /\ (-var < 10 * cov /\ 10 * cov < var) => label = "stable"
              /\ 10 * cov = var => label \in {up, "stable"}
              /\ 10 * cov = -var => label \in {down, "stable"}

\* [1,2,3,4,5] has been classified as increasing.
C19_Witness ==
    /\ series = [kind |-> "count", values |-> <<1, 2, 3, 4, 5>>]
    /\ label = "increasing"

(***************************************************************************)
(* Properties of the rates, checked under SpecRates.                       *)
(***************************************************************************)
\* The rate r is exactly n / d * 100, or 0 when d is 0.
ExactRate(r, n, d) ==
    /\ r.error = "none"
    /\ r.den > 0
    /\ IF d > 0 THEN r.num * d = 100 * n * r.den ELSE r.num = 0

\* The rate r is n / d * 100 rounded to two decimals, or 0 when d is 0: a
\* multiple of 0.01 at most 0.005 away from n / d * 100.
RoundedRate(r, n, d) ==
    /\ r.error = "none"
    /\ r.den > 0
    /\ (100 * r.num) % r.den = 0
    /\ IF d > 0
       THEN /\ 2 * (100 * r.num * d - 10000 * n * r.den) <= d * r.den
            /\ 2 * (10000 * n * r.den - 100 * r.num * d) <= d * r.den
       ELSE r.num = 0

RowsInRange(table) == InRange(table, gcall.parameters)

\* The report of this type was returned for a range with at least n rows.
ReturnedFor(report_type, n) ==
    /\ gcall.report_type = report_type
    /\ gout.error = "none"
    /\ gout.rows >= n

\* C21: in a request_trends report over a non-empty range, most_urgent_day is
\* a date of the range whose urgent count is the maximum over the range, and
\* the earliest date among those that share the maximum.
C21_MostUrgentDay ==
    ReturnedFor("request_trends", 1) =>
        \E i \in 1..Len(RowsInRange(requestStats)) :
            LET rows == RowsInRange(requestStats)
            IN /\ gpayload.most_urgent_day = <<"iso", rows[i].date>>
               /\ \A j \in 1..Len(rows) :
                      /\ rows[j].urgency_breakdown.urgent <= rows[i].urgency_breakdown.urgent
                      /\ rows[j].urgency_breakdown.urgent = rows[i].urgency_breakdown.urgent
                            => rows[i].date <= rows[j].date

\* A report was returned over two days that share the maximum urgent count,
\* the row of the later day having been stored first.
C21_Witness ==
    /\ ReturnedFor("request_trends", 2)
    /\ requestStats[1].date > requestStats[2].date
    /\ requestStats[1].urgency_breakdown.urgent = 1
    /\ requestStats[2].urgency_breakdown.urgent = 1
    /\ gpayload.most_urgent_day = <<"iso", requestStats[2].date>>

\* The greatest date of the rows of a table inside the range.
LastDateInRange(table) ==
    LET rows == RowsInRange(table)
    IN CHOOSE d \in {rows[i].date : i \in 1..Len(rows)} :
           \A i \in 1..Len(rows) : rows[i].date <= d

\* C22: an inventory_forecast report over a range with snapshots is returned,
\* and its forecast has 7 dates, the 7 consecutive days after the last date
\* of the historical series.
C22_ForecastSevenDays ==
    (gcall.report_type = "inventory_forecast" /\ gout # NoOutcome /\ gout.rows >= 1) =>
        /\ gout.error = "none"
        /\ gpayload.forecast_dates =
              [i \in 1..FORECAST_DAYS |-> <<"iso", LastDateInRange(snapshots) + i>>]

\* C29: in an inventory_summary report over a range with more than one
\* snapshot, blood_type_levels, total_units and critical_levels are those of
\* the snapshot with the greatest date in the range.
C29_LatestSnapshot ==
    ReturnedFor("inventory_summary", 2) =>
        LET rows == RowsInRange(snapshots)
            latest == CHOOSE i \in 1..Len(rows) : rows[i].date = LastDateInRange(snapshots)
            levels == rows[latest].inventory_levels
            kept == KeptTypes(levels, gcall.parameters)
        IN /\ gpayload.blood_type_levels = [g \in kept |-> levels[g]]
           /\ gpayload.total_units = SumLevels(levels, kept)
           /\ gpayload.critical_levels =
                 [g \in {k \in kept : levels[k] < CRITICAL_LEVEL} |-> levels[g]]

(***************************************************************************)
(* Properties of the forecast chart, checked under SpecChart.              *)
(***************************************************************************)
\* C23: every chart generate_inventory_forecast_chart returns has type 'line'
\* and each dataset has one data entry per label; when the days asked for
\* hold no snapshot the chart has 7 labels, starting today, and two datasets
\* of 7 zeros.
C23_ChartWellFormed ==
    chart # NoChart =>
        /\ chart.type = "line"
        /\ Len(chart.datasets) >= 1
        /\ \A k \in 1..Len(chart.datasets) : Len(chart.datasets[k]) = Len(chart.labels)
        /\ ChartRows(chart.request.days) = <<>> =>
              /\ chart.labels = [i \in 1..FORECAST_DAYS |-> <<"iso", today + i - 1>>]
              /\ Len(chart.datasets) = 2
              /\ \A k \in 1..2, i \in 1..FORECAST_DAYS : chart.datasets[k][i] = Number(0, 1)

\* A forecast chart over two snapshots was returned: 9 labels, two datasets,
\* the historical one padded with None and the forecast one holding numbers.
C23_Witness ==
    /\ Len(ChartRows(chart.request.days)) = 2
    /\ Len(chart.labels) = 2 + FORECAST_DAYS
    /\ Len(chart.datasets) = 2
    /\ chart.datasets[1][3] = None
    /\ chart.datasets[2][3] # None

(***************************************************************************)
(* The status counts of the request rollup, checked under SpecRollup.      *)
(***************************************************************************)
\* C28: in every DailyRequestStats row, fulfilled_requests + pending_requests
\* + cancelled_requests equals total_requests.
C28_StatusCountsAddUp ==
    \A i \in 1..Len(requestStats) :
        requestStats[i].fulfilled_requests + requestStats[i].pending_requests
            + requestStats[i].cancelled_requests = requestStats[i].total_requests

(***************************************************************************)
(* Properties of the donations views, checked under SpecDonations.         *)
(***************************************************************************)
\* No request is being handled.
Quiescent == \A p \in Handlers : opc[p] = "idle"

\* The sum of the transaction quantities of a group.
LoggedUnits(g) ==
    SumQuantity(SelectSeq(transactions, LAMBDA t : t.blood_group = g))

\* C24: a donation or blood request that is approved, rejected, fulfilled or
\* denied never changes its status again.
C24_FinalStatus ==
    [][/\ \A i \in 1..Len(donations) :
             donations[i].status # "pending" => donations'[i].status = donations[i].status
       /\ \A i \in 1..Len(requests) :
             requests[i].status # "pending" => requests'[i].status = requests[i].status]_vars

\* A request to an action view that finds the record not pending is answered
\* with 400 and changes no record, no inventory row and no transaction.
RefusedWhenNotPending ==
    [][\A p \in Handlers :
          (/\ opc[p] = "idle" /\ opc'[p] = "idle"
           /\ oper'[p] # oper[p]
           /\ oper'[p].kind \in {"approve", "reject", "fulfill", "deny"}
           /\ oper'[p].instance_status # "pending")
          => /\ oper'[p].response = 400
             /\ UNCHANGED <<donations, requests, inventory, transactions>>]_vars

\* C25: whenever no request is being handled, the quantity of every inventory
\* row equals the sum of the transaction quantities of its blood group.
C25_InventoryMatchesLog ==
    Quiescent =>
        \A g \in BloodGroups :
            LoggedUnits(g) = (IF g \in DOMAIN inventory THEN inventory[g].quantity ELSE 0)

\* The units of a group the log records as put in (donation) or taken out
\* (request).
LoggedUnitsOf(g, type) ==
    SumQuantity(SelectSeq(transactions,
                          LAMBDA t : t.blood_group = g /\ t.transaction_type = type))

\* C26: no inventory quantity is negative, and whenever no request is being
\* handled the units the fulfilled requests took out of a blood group do not
\* exceed the units that were put in.
C26_NoOverdraw ==
    /\ \A g \in DOMAIN inventory : inventory[g].quantity >= 0
    /\ Quiescent =>
          \A g \in BloodGroups :
              -LoggedUnitsOf(g, "request") <= LoggedUnitsOf(g, "donation")

\* The quantities are never negative, and fulfill refuses a request for more
\* units than the handler found on hand without changing anything.
NeverNegative ==
    /\ \A g \in DOMAIN inventory : inventory[g].quantity >= 0
    /\ \A p \in Handlers :
          opc[p] = "write_inventory" /\ oper[p].kind = "fulfill"
              => oper[p].inv_quantity >= oper[p].quantity

\* C27: a donor never has more than one pending donation.
C27_OnePendingDonation ==
    \A u \in Donors :
        Cardinality({i \in 1..Len(donations) :
                        donations[i].donor = u /\ donations[i].status = "pending"}) <= 1

(***************************************************************************)
(* The repeated call, checked under SpecRetry.                             *)
(***************************************************************************)
\* The unexpired rows the lookup of the call of p selects.
FreshRows(p) ==
    CacheFilter(reportCache, args[p].report_type, ProcessParams(args[p].parameters), now)

\* A caller whose call met a held lock obtains a payload in the end.
RetryObtainsPayload ==
    \A p \in Callers : (result[p] = "conflict") ~> (result[p] \in {"ok", "hit"})

\* The call is repeated while an unexpired row is stored for its report: it
\* goes to the lookup.
RetryLooksUp(p) ==
    (/\ pc[p] = "done" /\ result[p] = "conflict" /\ pc'[p] # "done"
     /\ FreshRows(p) # {})
    => pc'[p] = "lookup"

\* The lookup of a repeated call finds an unexpired row: the call returns
\* the data of such a row, and neither the generator nor the lock nor the
\* table is touched.
RetryLookupHits(p) ==
    (/\ retried[p] /\ pc[p] = "lookup" /\ pc'[p] # "lookup"
     /\ FreshRows(p) # {})
    => /\ pc'[p] = "done"
       /\ result'[p] = "hit"
       /\ returned'[p] \in {reportCache[i].data : i \in FreshRows(p)}
       /\ UNCHANGED <<genCount, lockStore, reportCache>>

\* C30 as stated: a caller that repeats its call after every 'generation
\* already in progress' failure obtains a payload in the end, and every
\* repeated call made while an unexpired row is stored for its report is
\* served from the cache without the generator being invoked.
C30_RetryServedFromCache ==
    /\ RetryObtainsPayload
    /\ [][\A p \in Callers : RetryLooksUp(p) /\ RetryLookupHits(p)]_vars

\* C30 for calls without force_refresh: a caller that repeats its call after
\* every 'generation already in progress' failure obtains a payload in the
\* end, with or without force_refresh; a repeated call without force_refresh
\* made while an unexpired row is stored for its report is served from the
\* cache without the generator being invoked.
C30_RetryWithoutForceRefresh ==
    /\ RetryObtainsPayload
    /\ [][\A p \in Callers :
             ~args[p].force_refresh => RetryLooksUp(p) /\ RetryLookupHits(p)]_vars

\* A repeated call without force_refresh has been served from the cache
\* with the payload the holder of the lock generated.
C30_Witness ==
    \E p \in Callers :
        /\ retried[p] /\ ~args[p].force_refresh
        /\ pc[p] = "done" /\ result[p] = "hit"
        /\ genCount = 1
        /\ returned[p].gen = 1

====
